---- MODULE Spec2Model ----
(***************************************************************************)
(* Model of the ranking engine of example_based_entity_search:             *)
(* entity_search_lib.py (text model, example model, rank) and the parts of *)
(* utils.py it calls (PPGraph).                                            *)
(*                                                                         *)
(* Decimal values are modelled as rounded decimal floating point numbers.  *)
(* The default decimal context traps DivisionByZero and InvalidOperation;  *)
(* a trapped operation is modelled as the call raising.                    *)
(* Strings are sequences of one-character strings.  RDF nodes are pairs    *)
(* <<kind, id>> with kind one of "uri", "lit", "bnode", "none".            *)
(***************************************************************************)
EXTENDS Integers, Sequences, FiniteSets, Bags, TLC

VARIABLES
    graph,          \* the triples of the PPGraph's store
    cache,          \* the lru_cache of _triples_set_representation, oldest first
    input_data,     \* the query: relation string and example entities
    preparsed_data, \* what the preparsing function returned
    entity,         \* the entity last scored
    outcome,        \* how the last call ended
    pc,             \* where a call of rank stands
    model,          \* the preparsing function and retrieval model rank was given
    entities_to_rank,
    rank_i,         \* the index i of rank's current loop
    ranking,        \* rank's list of (score, entity), ascending
    ranking_with_examples,
    norm,           \* min_val, max_val and norm_denominator of rank
    result,         \* the Ranking that rank returned
    calls,          \* the calls rank has made, in order
    scan_i,         \* how many entities of a long candidate list were looked up
    triples_set,    \* what the last call of _triples_set_representation returned
    preparsings,    \* how many times _examples_preparsing was called
    retrived_arg,   \* the argument of statistical_stats
    stats_ret,      \* what statistical_stats returned
    rankings,       \* the argument of rank_combined: (ranking_text, ranking_example)
    combined        \* what rank_combined returned

rankVars == <<pc, model, entities_to_rank, rank_i, ranking, ranking_with_examples, norm, result, calls>>

cacheVars == <<scan_i, triples_set, preparsings>>

statsVars == <<retrived_arg, stats_ret>>

combinedVars == <<rankings, combined>>

vars == <<graph, cache, input_data, preparsed_data, entity, outcome, rankVars,
          cacheVars, statsVars, combinedVars>>

(***************************************************************************)
(* Bounds of the model.                                                    *)
(***************************************************************************)
\* longest merged ranking of candidates and examples in SpecAP
MaxMerged == 11

\* longest ranking given to rank_combined in SpecCombined
MaxRankingLen == 3

\* longest relevance sequence given to statistical_stats in SpecStats
MaxRetrived == 5

\* most calls of _examples_preparsing in a run of SpecCache
MaxPreparsings == 2

\* most triples with the scored entity as subject in a graph of SpecText
MaxTextTriples == 2
\* longest relation string handed to _text_preparsing
MaxStrLen == 2
\* longest relation term list handed directly to _text_retrieval_model
MaxRelLen == 2
\* largest smoothing parameter handed directly to _text_retrieval_model
MaxNi == 2
\* most triples of a graph of SpecExamples drawn from ExamplesUniverse
MaxExTriples == 3
\* most triples of a graph in which one entity points to many others
MaxFan == 18
\* longest example list of a query
MaxExamples == 2
\* longest list of entities to rank
MaxCandidates == 3
\* significant digits kept by Decimal arithmetic.  The default context keeps
\* 28; the model keeps fewer, with the same rounding rule and traps.
prec == 3

(***************************************************************************)
(* Sequences and sets.                                                     *)
(***************************************************************************)
Range(s) == {s[i] : i \in 1..Len(s)}

SeqsUpTo(S, n) == UNION {[1..k -> S] : k \in 0..n}

(***************************************************************************)
(* decimal.Decimal.  A value is <<c, e>>, standing for c * 10^e with c >= 0 *)
(* and no trailing zero in c (zero is <<0, 0>>), so that numeric equality  *)
(* is equality of the pairs.  Every arithmetic result is rounded to prec   *)
(* significant digits, ROUND_HALF_EVEN, as in the default context.  All    *)
(* values of the program are non-negative.                                 *)
(***************************************************************************)
RECURSIVE Pow10(_)
Pow10(k) == IF k = 0 THEN 1 ELSE 10 * Pow10(k - 1)

RECURSIVE Digits(_)
\* the number of decimal digits of n >= 0
Digits(n) == IF n < 10 THEN 1 ELSE 1 + Digits(n \div 10)

RECURSIVE Norm(_, _)
\* the pair for c * 10^e
Norm(c, e) ==
    IF c = 0 THEN <<0, 0>>
    ELSE IF c % 10 = 0 THEN Norm(c \div 10, e + 1)
    ELSE <<c, e>>

\* the exact value n * 10^e rounded to prec significant digits, half to even
Round(n, e) ==
    LET k == Digits(n) - prec
    IN  IF k <= 0 THEN Norm(n, e)
        ELSE LET base == n \div Pow10(k)
                 rem == n % Pow10(k)
                 half == 5 * Pow10(k - 1)
                 up == rem > half \/ (rem = half /\ base % 2 = 1)
             IN  Norm(IF up THEN base + 1 ELSE base, e + k)

\* Decimal(n) of an integer n >= 0: exact
D(n) == Norm(n, 0)

\* x + sgn * y for sgn in {1, -1}, with x >= y when sgn = -1.  An operand
\* more than 9 digits below the other's leading digit cannot change the
\* rounded result and is dropped.
Combine(x, y, sgn) ==
    LET e == IF x[2] < y[2] THEN x[2] ELSE y[2]
        gx == x[2] - e
        gy == y[2] - e
    IN  IF y[1] = 0 THEN x
        ELSE IF x[1] = 0 THEN y
        ELSE IF Digits(x[1]) + gx > 9 THEN x
        ELSE IF Digits(y[1]) + gy > 9 THEN y
        ELSE Round(x[1] * Pow10(gx) + sgn * y[1] * Pow10(gy), e)

DAdd(x, y) == Combine(x, y, 1)

\* x - y for x >= y
DSub(x, y) == Combine(x, y, -1)

DMul(x, y) == Round(x[1] * y[1], x[2] + y[2])

RECURSIVE DivLoop(_, _, _, _)
\* long division: quotient digits until prec + 1 digits or a zero remainder
DivLoop(q, r, c, e) ==
    IF r = 0 \/ q >= Pow10(prec) THEN <<q, r, e>>
    ELSE DivLoop(q * 10 + ((r * 10) \div c), (r * 10) % c, c, e - 1)

\* x / y for y # 0; a zero divisor is trapped by the callers
DDiv(x, y) ==
    LET qre == DivLoop(x[1] \div y[1], x[1] % y[1], y[1], x[2] - y[2])
        q == qre[1]
        r == qre[2]
        e == qre[3]
    IN  IF r = 0 THEN Round(q, e)
        ELSE Norm(IF q % 10 >= 5 THEN (q \div 10) + 1 ELSE q \div 10, e + 1)

\* -1, 0 or 1 as x is below, equal to or above y
DCmp(x, y) ==
    LET dx == Digits(x[1])
        dy == Digits(y[1])
        d == IF dx < dy THEN dy ELSE dx
        cx == x[1] * Pow10(d - dx)
        cy == y[1] * Pow10(d - dy)
    IN  IF x = y THEN 0
        ELSE IF x[1] = 0 THEN -1
        ELSE IF y[1] = 0 THEN 1
        ELSE IF x[2] + dx < y[2] + dy THEN -1
        ELSE IF x[2] + dx > y[2] + dy THEN 1
        ELSE IF cx < cy THEN -1 ELSE 1

DLeq(x, y) == DCmp(x, y) <= 0

DLt(x, y) == DCmp(x, y) < 0

DIsZero(x) == x[1] = 0

(***************************************************************************)
(* Outcome of a call: a returned value or a raised exception.              *)
(***************************************************************************)
NotCalled == [state |-> "none", fn |-> "", value |-> D(0), exc |-> ""]

Returned(f, v) == [state |-> "returned", fn |-> f, value |-> v, exc |-> ""]

Raised(f, e) == [state |-> "raised", fn |-> f, value |-> D(0), exc |-> e]

(***************************************************************************)
(* The variables of rank while no call of rank is made.                    *)
(***************************************************************************)
NoNorm == [min_val |-> <<0, 0>>, max_val |-> <<0, 0>>, norm_denominator |-> <<0, 0>>]

NoRanking == [ap |-> <<0, 0>>, ranking |-> <<>>]

NoRepresentation == [state |-> "none", entity |-> <<"none", "">>, result |-> {}, hit |-> FALSE]

NoStats == [state |-> "none", exc |-> "", R_Precision |-> <<0, 0>>, AvgPrec |-> <<0, 0>>]

NoRankings == <<NoRanking, NoRanking>>

NoCombined == [state |-> "none", exc |-> "", branch |-> "", ap |-> <<0, 0>>, ranking |-> <<>>]

\* the variables of the calls that a specification does not make
CacheIdle == scan_i = 0 /\ triples_set = NoRepresentation /\ preparsings = 0

StatsIdle == retrived_arg = <<>> /\ stats_ret = NoStats

CombinedIdle == rankings = NoRankings /\ combined = NoCombined

RankIdle ==
    /\ pc = "idle"
    /\ model = "none"
    /\ entities_to_rank = <<>>
    /\ rank_i = 0
    /\ ranking = <<>>
    /\ ranking_with_examples = <<>>
    /\ norm = NoNorm
    /\ result = NoRanking
    /\ calls = <<>>

(***************************************************************************)
(* RDF terms.                                                              *)
(***************************************************************************)
URIRef(id) == <<"uri", id>>

Literal(id) == <<"lit", id>>

BNode(id) == <<"bnode", id>>

None == <<"none", "">>

IsURIRef(n) == n[1] = "uri"

IsLiteral(n) == n[1] = "lit"

IsBNode(n) == n[1] = "bnode"

\* the text of a literal
LitText(id) ==
    CASE id = "la" -> <<"a">>
      [] id = "lb" -> <<"b">>
      [] id = "lab" -> <<"A", " ", "b">>
      [] id = "lde" -> <<"a">>
      [] OTHER -> <<>>

\* the language tag of a literal ("None": no tag)
LitLang(id) ==
    CASE id = "la" -> "en"
      [] id = "lb" -> ""
      [] id = "lab" -> "pl"
      [] id = "lde" -> "de"
      [] OTHER -> "None"

LANGS == {"en", "pl", "None", ""}

RDF_type == URIRef("rdf:type")

SKOS_subject == URIRef("skos:subject")

DC_subject == URIRef("dc:subject")

RDFS_label == URIRef("rdfs:label")

(***************************************************************************)
(* PPGraph: the store is a set of triples <<s, p, o>>.                     *)
(***************************************************************************)
\* the filter without the language test on literals
check_triple_any_language(tr) == ~(IsBNode(tr[1]) \/ IsBNode(tr[3]))

check_triple(tr) ==
    IF IsBNode(tr[1]) \/ IsBNode(tr[3]) THEN FALSE
    ELSE IF IsLiteral(tr[3]) /\ LitLang(tr[3][2]) \notin LANGS THEN FALSE
    ELSE TRUE

\* PPGraph.triples((s, p, o)) where None matches anything
triples(g, s, p, o) ==
    {tr \in g : /\ (s = None \/ tr[1] = s)
                /\ (p = None \/ tr[2] = p)
                /\ (o = None \/ tr[3] = o)
                /\ check_triple(tr)}

objects(g, subject, predicate) == {tr[3] : tr \in triples(g, subject, predicate, None)}

subject_predicates(g, object) == {<<tr[1], tr[2]>> : tr \in triples(g, None, None, object)}

predicate_objects(g, subject) == {<<tr[2], tr[3]>> : tr \in triples(g, subject, None, None)}

\* PPGraph.label: a label of the entity in an accepted language, or None
label(g, e) ==
    LET labels == {l \in objects(g, e, RDFS_label) : IsLiteral(l) /\ LitLang(l[2]) \in LANGS}
    IN  IF labels = {} THEN None ELSE CHOOSE l \in labels : TRUE

\* PPGraph.size of a local store: the number of triples of the store
size(g) == Cardinality(g)

(***************************************************************************)
(* Text: str.lower and str.split.                                          *)
(***************************************************************************)
lower(c) ==
    CASE c = "A" -> "a"
      [] c = "B" -> "b"
      [] OTHER -> c

normalize_relation(text) == [i \in 1..Len(text) |-> lower(text[i])]

RECURSIVE SplitFrom(_, _, _, _)
SplitFrom(s, i, word, acc) ==
    IF i > Len(s) THEN (IF word = <<>> THEN acc ELSE Append(acc, word))
    ELSE IF s[i] = " " THEN SplitFrom(s, i + 1, <<>>, IF word = <<>> THEN acc ELSE Append(acc, word))
    ELSE SplitFrom(s, i + 1, Append(word, s[i]), acc)

\* str.split(" "): every run between single spaces, empty runs kept
split_on_space(s) ==
    LET spaces == {i \in 1..Len(s) : s[i] = " "}
        cuts == [k \in 0..Cardinality(spaces) + 1 |->
                    IF k = 0 THEN 0
                    ELSE IF k = Cardinality(spaces) + 1 THEN Len(s) + 1
                    ELSE CHOOSE i \in spaces : Cardinality({j \in spaces : j < i}) = k - 1]
    IN  [k \in 1..Cardinality(spaces) + 1 |-> SubSeq(s, cuts[k - 1] + 1, cuts[k] - 1)]

\* str.split(): the maximal runs of non-whitespace characters, in order
split(s) == SplitFrom(s, 1, <<>>, <<>>)

RECURSIVE CountTerms(_, _)
\* cs[o] += 1 for every o of the term list
CountTerms(cs, terms) ==
    IF terms = <<>> THEN cs
    ELSE CountTerms(cs (+) SetToBag({Head(terms)}), Tail(terms))

(***************************************************************************)
(* _text_representation                                                    *)
(***************************************************************************)
threshold == 999

type_uris == {RDF_type, SKOS_subject, DC_subject}

EmptyRepresentation == [attributes |-> EmptyBag, types |-> EmptyBag, links |-> EmptyBag]

\* one iteration of the loop over graph.predicate_objects(entity)
TextRepresentationStep(g, rep, po) ==
    LET triple_predicate == po[1]
        triple_object == po[2]
    IN  IF IsLiteral(triple_object)
        THEN [rep EXCEPT !.attributes = CountTerms(@, split(normalize_relation(LitText(triple_object[2]))))]
        ELSE IF IsURIRef(triple_object)
        THEN LET value_to_use == label(g, triple_object)
             IN  IF value_to_use = None \/ Len(LitText(value_to_use[2])) = 0 THEN rep
                 ELSE IF triple_predicate \in type_uris
                 THEN [rep EXCEPT !.types = CountTerms(@, split(normalize_relation(LitText(value_to_use[2]))))]
                 ELSE [rep EXCEPT !.links = CountTerms(@, split(normalize_relation(LitText(value_to_use[2]))))]
        ELSE rep

RECURSIVE TextRepresentationLoop(_, _, _)
TextRepresentationLoop(g, rep, todo) ==
    IF todo = {} THEN rep
    ELSE LET po == CHOOSE x \in todo : TRUE
             next == TextRepresentationStep(g, rep, po)
         IN  IF /\ BagCardinality(next.attributes) >= threshold
                /\ BagCardinality(next.types) >= threshold
                /\ BagCardinality(next.links) >= threshold
             THEN next
             ELSE TextRepresentationLoop(g, next, todo \ {po})

_text_representation(g, e) == TextRepresentationLoop(g, EmptyRepresentation, predicate_objects(g, e))

(***************************************************************************)
(* _text_preparsing and _text_retrieval_model                              *)
(***************************************************************************)
_text_preparsing(g, query) ==
    [kind |-> "text", relation |-> split(normalize_relation(query.relation)), ni |-> size(g)]

cs_names == {"attributes", "types", "links"}

\* the weights of attributes and links exchanged
representation_weights_swapped(cs_name) ==
    CASE cs_name = "attributes" -> Norm(2, -1)
      [] cs_name = "types" -> Norm(4, -1)
      [] cs_name = "links" -> Norm(4, -1)

representation_weights(cs_name) ==
    CASE cs_name = "attributes" -> Norm(4, -1)
      [] cs_name = "types" -> Norm(4, -1)
      [] cs_name = "links" -> Norm(2, -1)

\* representations_lengths taken as len(cs), the number of distinct terms
RepresentationProbabilityDistinct(t, ni, cs, probability_collection) ==
    DDiv(DAdd(D(CopiesIn(t, cs)), DMul(D(ni), probability_collection)),
         D(Cardinality(BagToSet(cs)) + ni))

\* tf taken as membership (0 or 1) instead of the count
RepresentationProbabilityMember(t, ni, cs, probability_collection) ==
    DDiv(DAdd(D(IF BagIn(t, cs) THEN 1 ELSE 0), DMul(D(ni), probability_collection)),
         D(BagCardinality(cs) + ni))

\* P(t | theta_cs_e), with probability_collection = 1 / ni
RepresentationProbability(t, ni, cs, probability_collection) ==
    DDiv(DAdd(D(CopiesIn(t, cs)), DMul(D(ni), probability_collection)), D(BagCardinality(cs) + ni))

\* P(t | theta_w_e): the weighted sum over the three representations
TermProbability(t, ni, representations, probability_collection) ==
    DAdd(DAdd(DMul(RepresentationProbability(t, ni, representations.attributes, probability_collection),
                   representation_weights("attributes")),
              DMul(RepresentationProbability(t, ni, representations.types, probability_collection),
                   representation_weights("types"))),
         DMul(RepresentationProbability(t, ni, representations.links, probability_collection),
              representation_weights("links")))

RECURSIVE FinalProbability(_, _, _, _, _)
\* the loop "for t in relation: final_probability *= term_probability"
FinalProbability(relation, ni, representations, probability_collection, final_probability) ==
    IF relation = <<>> THEN final_probability
    ELSE FinalProbability(Tail(relation), ni, representations, probability_collection,
                          DMul(final_probability,
                               TermProbability(Head(relation), ni, representations, probability_collection)))

\* the score of a representation for ni # 0 (lines 179-230)
DirichletScore(relation, ni, representations) ==
    FinalProbability(relation, ni, representations, DDiv(D(1), D(ni)), D(1))

\* 1 / ni computed inside the loop over the relation terms only
_text_retrieval_model_lazy(preparsed, g, e) ==
    IF preparsed.relation = <<>> THEN Returned("_text_retrieval_model", D(1))
    ELSE IF preparsed.ni = 0 THEN Raised("_text_retrieval_model", "DivisionByZero")
    ELSE Returned("_text_retrieval_model",
                  DirichletScore(preparsed.relation, preparsed.ni, _text_representation(g, e)))

_text_retrieval_model(preparsed, g, e) ==
    LET relation == preparsed.relation
        ni == preparsed.ni
        representations == _text_representation(g, e)
    IN  IF ni = 0 THEN Raised("_text_retrieval_model", "DivisionByZero")
        ELSE Returned("_text_retrieval_model", DirichletScore(relation, ni, representations))

(***************************************************************************)
(* SpecText: calls of _text_preparsing and _text_retrieval_model on one    *)
(* entity of a graph.                                                      *)
(***************************************************************************)
E0 == URIRef("e0")

U1 == URIRef("u1")

U2 == URIRef("u2")

P1 == URIRef("p1")

\* triples with the scored entity as subject
TextUniverse ==
    {<<E0, p, o>> : p \in {P1, RDF_type},
                    o \in {Literal("la"), Literal("lab"), Literal("lde"), U1, U2, BNode("b0")}}

\* labels of the linked entities
LabelTriples == {<<U1, RDFS_label, Literal("la")>>, <<U2, RDFS_label, Literal("lb")>>}

TextGraphs ==
    {s \cup l : s \in {x \in SUBSET TextUniverse : Cardinality(x) <= MaxTextTriples},
                l \in {{}, LabelTriples}}

Chars == {"a", "A", "b", " "}

Terms == {<<"a">>, <<"b">>}

NoQuery == [relation |-> <<>>, examples |-> <<>>]

InitText ==
    /\ graph \in TextGraphs
    /\ cache = <<>>
    /\ input_data = NoQuery
    /\ preparsed_data \in [kind : {"text"}, relation : SeqsUpTo(Terms, MaxRelLen), ni : 0..MaxNi]
    /\ entity = E0
    /\ outcome = NotCalled
    /\ RankIdle
    /\ CacheIdle /\ StatsIdle /\ CombinedIdle

\* the query of a run is preparsed once, before the entity is scored
TextPreparsing ==
    \E text \in SeqsUpTo(Chars, MaxStrLen) :
        /\ input_data = NoQuery
        /\ outcome.state = "none"
        /\ input_data' = [relation |-> text, examples |-> <<>>]
        /\ preparsed_data' = _text_preparsing(graph, input_data')
        /\ outcome' = NotCalled
        /\ UNCHANGED <<graph, cache, entity, rankVars, cacheVars, statsVars, combinedVars>>

TextRetrievalModel ==
    /\ outcome.state = "none"
    /\ outcome' = _text_retrieval_model(preparsed_data, graph, entity)
    /\ UNCHANGED <<graph, cache, input_data, preparsed_data, entity, rankVars, cacheVars, statsVars, combinedVars>>

NextText == TextPreparsing \/ TextRetrievalModel

SpecText == InitText /\ [][NextText]_vars

(***************************************************************************)
(* _triples_set_representation and its lru_cache.  The cache key is the    *)
(* pair (graph, entity); a PPGraph hashes by identity and the model holds  *)
(* one PPGraph object, so an entry is found by its entity.                 *)
(***************************************************************************)
lru_maxsize == 1024

\* every outlink stored without its subject, as the literal attributes are
SetRepresentationAnonymous(g, e) ==
    {<<None, po[1], po[2]>> : po \in {x \in predicate_objects(g, e) : IsLiteral(x[2]) \/ IsURIRef(x[2])}}
        \cup {<<sp[1], sp[2], e>> : sp \in subject_predicates(g, e)}

\* the wrapped function: the triples with the entity as subject or object
SetRepresentation(g, e) ==
    LET outlinks == {IF IsLiteral(po[2]) THEN <<None, po[1], po[2]>> ELSE <<e, po[1], po[2]>> :
                        po \in {x \in predicate_objects(g, e) : IsLiteral(x[2]) \/ IsURIRef(x[2])}}
        inlinks == {<<sp[1], sp[2], e>> : sp \in subject_predicates(g, e)}
    IN  outlinks \cup inlinks

CacheIndex(c, e) == IF \E i \in 1..Len(c) : c[i].entity = e THEN CHOOSE i \in 1..Len(c) : c[i].entity = e ELSE 0

WithoutIndex(c, i) == [j \in 1..Len(c) - 1 |-> IF j < i THEN c[j] ELSE c[j + 1]]

\* a hit served from the most recently used entry instead of the matching one
_triples_set_representation_recent(c, g, e) ==
    LET i == CacheIndex(c, e)
        fresh == [entity |-> e, result |-> SetRepresentation(g, e)]
    IN  IF i # 0 THEN [result |-> c[Len(c)].result, cache |-> Append(WithoutIndex(c, i), c[i])]
        ELSE IF Len(c) >= lru_maxsize THEN [result |-> fresh.result, cache |-> Append(Tail(c), fresh)]
        ELSE [result |-> fresh.result, cache |-> Append(c, fresh)]

\* a miss on a full cache served from the slot of the evicted entry
_triples_set_representation_slot(c, g, e) ==
    LET i == CacheIndex(c, e)
        fresh == [entity |-> e, result |-> SetRepresentation(g, e)]
    IN  IF i # 0 THEN [result |-> c[i].result, cache |-> Append(WithoutIndex(c, i), c[i])]
        ELSE IF Len(c) >= lru_maxsize
        THEN [result |-> Head(c).result, cache |-> Append(Tail(c), [entity |-> e, result |-> Head(c).result])]
        ELSE [result |-> fresh.result, cache |-> Append(c, fresh)]

\* the cached call: the result and the cache after the call
_triples_set_representation(c, g, e) ==
    LET i == CacheIndex(c, e)
        fresh == [entity |-> e, result |-> SetRepresentation(g, e)]
    IN  IF i # 0 THEN [result |-> c[i].result, cache |-> Append(WithoutIndex(c, i), c[i])]
        ELSE IF Len(c) >= lru_maxsize THEN [result |-> fresh.result, cache |-> Append(Tail(c), fresh)]
        ELSE [result |-> fresh.result, cache |-> Append(c, fresh)]

(***************************************************************************)
(* _examples_preparsing and _example_retrieval_model                       *)
(***************************************************************************)
RECURSIVE ExamplesRepresentations(_, _, _, _)
\* the loop "for example in examples: examples_representations.append(...)"
ExamplesRepresentations(c, g, examples, acc) ==
    IF examples = <<>> THEN [representations |-> acc, cache |-> c]
    ELSE LET call == _triples_set_representation(c, g, Head(examples))
         IN  ExamplesRepresentations(call.cache, g, Tail(examples), Append(acc, call.result))

\* sum(x in X) n(tr, x): the number of example representations holding tr
Nominator(tr, representations) ==
    Cardinality({j \in 1..Len(representations) : tr \in representations[j]})

RECURSIVE SumNominators(_, _)
\* the sum of Nominator over a set of triples
SumNominators(trs, representations) ==
    IF trs = {} THEN 0
    ELSE LET tr == CHOOSE x \in trs : TRUE
         IN  Nominator(tr, representations) + SumNominators(trs \ {tr}, representations)

RECURSIVE DenominatorFrom(_, _)
\* the three nested loops of lines 291-296: every triple of every example
\* representation adds the number of representations holding it
DenominatorFrom(i, representations) ==
    IF i > Len(representations) THEN 0
    ELSE SumNominators(representations[i], representations) + DenominatorFrom(i + 1, representations)

Denominator(representations) == DenominatorFrom(1, representations)

\* the weights P(tr | theta_X) of lines 302-309; no division is made when no
\* example representation holds a triple
ExampleWeights(representations) ==
    [tr \in UNION Range(representations) |->
        DDiv(D(Nominator(tr, representations)), D(Denominator(representations)))]

_examples_preparsing(c, g, query) ==
    LET reps == ExamplesRepresentations(c, g, query.examples, <<>>)
    IN  [preparsed |-> [kind |-> "examples", weights |-> ExampleWeights(reps.representations)],
         cache |-> reps.cache]

RECURSIVE SumWeights(_, _, _)
\* the loop "for tr in preparsed_data.keys(): final_probability += ..."
SumWeights(weights, trs, final_probability) ==
    IF trs = {} THEN final_probability
    ELSE LET tr == CHOOSE x \in trs : TRUE
         IN  SumWeights(weights, trs \ {tr}, DAdd(final_probability, weights[tr]))

_example_retrieval_model(preparsed, c, g, e) ==
    LET call == _triples_set_representation(c, g, e)
        representation == call.result
    IN  [outcome |-> Returned("_example_retrieval_model",
                              SumWeights(preparsed.weights, DOMAIN preparsed.weights \cap representation, D(0))),
         cache |-> call.cache]

(***************************************************************************)
(* SpecExamples: calls of _examples_preparsing and                         *)
(* _example_retrieval_model on the entities of a graph.                    *)
(***************************************************************************)
EA == URIRef("a")

EB == URIRef("b")

EC == URIRef("c")

ExEntities == {EA, EB, EC}

ExamplesUniverse ==
    {<<EA, P1, Literal("la")>>, <<EB, P1, Literal("la")>>, <<EC, P1, Literal("lb")>>,
     <<EA, P1, EB>>, <<EB, P1, EC>>, <<EA, RDF_type, U1>>, <<EB, RDF_type, U1>>,
     <<EA, P1, Literal("lde")>>, <<BNode("b0"), P1, EA>>}

\* the graph in which entity a points to n other entities
FanGraph(n) == {<<EA, P1, URIRef(ToString(k))>> : k \in 1..n}

ExamplesGraphs ==
    {x \in SUBSET ExamplesUniverse : Cardinality(x) <= MaxExTriples} \cup {FanGraph(n) : n \in 1..MaxFan}

NotPreparsed == [kind |-> "none"]

InitExamples ==
    /\ graph \in ExamplesGraphs
    /\ cache = <<>>
    /\ input_data \in [relation : {<<>>}, examples : SeqsUpTo(ExEntities, MaxExamples)]
    /\ preparsed_data = NotPreparsed
    /\ entity = None
    /\ outcome = NotCalled
    /\ RankIdle
    /\ CacheIdle /\ StatsIdle /\ CombinedIdle

ExamplesPreparsing ==
    /\ preparsed_data.kind = "none"
    /\ LET call == _examples_preparsing(cache, graph, input_data)
       IN  /\ preparsed_data' = call.preparsed
           /\ cache' = call.cache
    /\ outcome' = Returned("_examples_preparsing", D(0))
    /\ UNCHANGED <<graph, input_data, entity, rankVars, cacheVars, statsVars, combinedVars>>

ExampleRetrievalModel ==
    /\ preparsed_data.kind = "examples"
    /\ \E e \in ExEntities :
          LET call == _example_retrieval_model(preparsed_data, cache, graph, e)
          IN  /\ entity' = e
              /\ outcome' = call.outcome
              /\ cache' = call.cache
    /\ UNCHANGED <<graph, input_data, preparsed_data, rankVars, cacheVars, statsVars, combinedVars>>

NextExamples == ExamplesPreparsing \/ ExampleRetrievalModel

SpecExamples == InitExamples /\ [][NextExamples]_vars

(***************************************************************************)
(* SpecCache: calls of _triples_set_representation and _examples_preparsing*)
(* on one graph that is not mutated, before and after the entities of a    *)
(* candidate list as long as the cache were looked up.                     *)
(***************************************************************************)
\* the k-th entity of the long candidate list
Filler(k) == URIRef(ToString(k))

\* the length of the long candidate list: one entry of the cache stays free
ScanLen == lru_maxsize - 1

CacheUniverse ==
    {<<EA, P1, Literal("la")>>, <<EB, P1, Literal("la")>>, <<Filler(1), P1, EA>>}

CacheGraphs == SUBSET CacheUniverse

CacheExampleLists == {<<EA>>, <<EA, EB>>}

\* the entities looked up one by one
CacheEntities == {EA, EB, Filler(1), Filler(2)}

InitCache ==
    /\ graph \in CacheGraphs
    /\ cache = <<>>
    /\ input_data \in [relation : {<<>>}, examples : CacheExampleLists]
    /\ preparsed_data = NotPreparsed
    /\ entity = None
    /\ outcome = NotCalled
    /\ RankIdle
    /\ CacheIdle /\ StatsIdle /\ CombinedIdle

\* one call of _triples_set_representation(graph, e)
LookUp(e) ==
    LET call == _triples_set_representation(cache, graph, e)
    IN  /\ triples_set' = [state |-> "returned", entity |-> e, result |-> call.result,
                            hit |-> CacheIndex(cache, e) # 0]
        /\ cache' = call.cache

\* a call of _examples_preparsing, before or after the long candidate list
CachePreparsing ==
    /\ scan_i \in {0, ScanLen}
    /\ preparsings < MaxPreparsings
    /\ LET call == _examples_preparsing(cache, graph, input_data)
       IN  /\ preparsed_data' = call.preparsed
           /\ cache' = call.cache
    /\ preparsings' = preparsings + 1
    /\ outcome' = Returned("_examples_preparsing", D(0))
    /\ UNCHANGED <<graph, input_data, entity, scan_i, triples_set, rankVars, statsVars, combinedVars>>

\* the next entity of the long candidate list is looked up
CacheScan ==
    /\ scan_i < ScanLen
    /\ LookUp(Filler(scan_i + 1))
    /\ scan_i' = scan_i + 1
    /\ UNCHANGED <<graph, input_data, preparsed_data, entity, outcome, preparsings, rankVars,
                   statsVars, combinedVars>>

\* a call of _triples_set_representation once the cache is nearly full
CacheLookUp ==
    /\ scan_i = ScanLen
    /\ \E e \in CacheEntities : LookUp(e)
    /\ UNCHANGED <<graph, input_data, preparsed_data, entity, outcome, scan_i, preparsings, rankVars,
                   statsVars, combinedVars>>

NextCache == CachePreparsing \/ CacheScan \/ CacheLookUp

SpecCache == InitCache /\ [][NextCache]_vars

(***************************************************************************)
(* SpecParse: calls of _triples_set_representation on a PPGraph to which   *)
(* load_data(data_url, old_graph) adds the triples of further files.       *)
(***************************************************************************)
ParseUniverse == {<<EA, P1, Literal("la")>>, <<EA, P1, EB>>, <<EC, P1, EA>>}

ParseEntities == {EA, EB}

InitParse ==
    /\ graph \in SUBSET ParseUniverse
    /\ cache = <<>>
    /\ input_data = NoQuery
    /\ preparsed_data = NotPreparsed
    /\ entity = None
    /\ outcome = NotCalled
    /\ RankIdle
    /\ CacheIdle /\ StatsIdle /\ CombinedIdle

\* PPGraph.parse on a local store: the triples of the file join the store of
\* the same PPGraph object
Parse ==
    /\ \E file \in SUBSET ParseUniverse :
          /\ file # {}
          /\ graph' = graph \cup file
    /\ UNCHANGED <<cache, input_data, preparsed_data, entity, outcome, rankVars, cacheVars,
                   statsVars, combinedVars>>

ParseLookUp ==
    /\ \E e \in ParseEntities : LookUp(e)
    /\ UNCHANGED <<graph, input_data, preparsed_data, entity, outcome, scan_i, preparsings, rankVars,
                   statsVars, combinedVars>>

NextParse == Parse \/ ParseLookUp

SpecParse == InitParse /\ [][NextParse]_vars

(***************************************************************************)
(* SpecRepresentation: calls of _triples_set_representation on graphs with *)
(* literals in accepted and other languages, URI objects, blank nodes at   *)
(* either end, links between the entities in both directions and a loop.   *)
(***************************************************************************)
RepresentationUniverse ==
    {<<EA, P1, Literal("la")>>, <<EB, P1, Literal("la")>>, <<EA, P1, Literal("lde")>>,
     <<EA, RDF_type, U1>>, <<EB, RDF_type, U1>>, <<EA, P1, EB>>, <<EB, P1, EA>>, <<EA, P1, EA>>,
     <<BNode("b0"), P1, EA>>, <<EA, P1, BNode("b0")>>}

RepresentationEntities == {EA, EB}

InitRepresentation ==
    /\ graph \in SUBSET RepresentationUniverse
    /\ cache = <<>>
    /\ input_data = NoQuery
    /\ preparsed_data = NotPreparsed
    /\ entity = None
    /\ outcome = NotCalled
    /\ RankIdle
    /\ CacheIdle /\ StatsIdle /\ CombinedIdle

RepresentationLookUp ==
    /\ \E e \in RepresentationEntities : LookUp(e)
    /\ UNCHANGED <<graph, input_data, preparsed_data, entity, outcome, scan_i, preparsings, rankVars,
                   statsVars, combinedVars>>

NextRepresentation == RepresentationLookUp

SpecRepresentation == InitRepresentation /\ [][NextRepresentation]_vars

(***************************************************************************)
(* statistical_stats                                                       *)
(***************************************************************************)
RECURSIVE AvgPrecLoopFromZero(_, _, _, _)
\* the loop with the positions counted from 0: the precision at position k
\* divided by k - 1, skipped at the first position
AvgPrecLoopFromZero(retrived, k, relevant_so_far, avg_prec) ==
    IF k > Len(retrived) THEN avg_prec
    ELSE IF retrived[k]
    THEN AvgPrecLoopFromZero(retrived, k + 1, DAdd(relevant_so_far, D(1)),
                             IF k = 1 THEN avg_prec
                             ELSE DAdd(avg_prec, DDiv(DAdd(relevant_so_far, D(1)), D(k - 1))))
    ELSE AvgPrecLoopFromZero(retrived, k + 1, relevant_so_far, avg_prec)

RECURSIVE AvgPrecLoop(_, _, _, _)
\* the loop over enumerate(retrived, 1)
AvgPrecLoop(retrived, k, relevant_so_far, avg_prec) ==
    IF k > Len(retrived) THEN avg_prec
    ELSE IF retrived[k]
    THEN AvgPrecLoop(retrived, k + 1, DAdd(relevant_so_far, D(1)),
                     DAdd(avg_prec, DDiv(DAdd(relevant_so_far, D(1)), D(k))))
    ELSE AvgPrecLoop(retrived, k + 1, relevant_so_far, avg_prec)

\* an empty list answered with zeros instead of the trapped 0 / 0
statistical_stats_guarded(retrived) ==
    LET n == Len(retrived)
        found == Cardinality({k \in 1..n : retrived[k]})
    IN  IF n = 0 THEN [raised |-> FALSE, exc |-> "", R_Precision |-> D(0), AvgPrec |-> D(0)]
        ELSE [raised |-> FALSE, exc |-> "",
              R_Precision |-> DDiv(D(found), D(n)),
              AvgPrec |-> DDiv(AvgPrecLoop(retrived, 1, D(0), D(0)), D(n))]

\* the sum of precisions divided by the number of relevant entries
statistical_stats_relevant(retrived) ==
    LET n == Len(retrived)
        found == Cardinality({k \in 1..n : retrived[k]})
    IN  IF n = 0 THEN [raised |-> TRUE, exc |-> "InvalidOperation", R_Precision |-> D(0), AvgPrec |-> D(0)]
        ELSE [raised |-> FALSE, exc |-> "",
              R_Precision |-> DDiv(D(found), D(n)),
              AvgPrec |-> IF found = 0 THEN D(0)
                          ELSE DDiv(AvgPrecLoop(retrived, 1, D(0), D(0)), D(found))]

\* D(sum(retrived)) / len(retrived) is 0 / 0 for an empty list: InvalidOperation
statistical_stats(retrived) ==
    LET n == Len(retrived)
        found == Cardinality({k \in 1..n : retrived[k]})
    IN  IF n = 0 THEN [raised |-> TRUE, exc |-> "InvalidOperation", R_Precision |-> D(0), AvgPrec |-> D(0)]
        ELSE [raised |-> FALSE, exc |-> "",
              R_Precision |-> DDiv(D(found), D(n)),
              AvgPrec |-> DDiv(AvgPrecLoop(retrived, 1, D(0), D(0)), D(n))]

(***************************************************************************)
(* SpecStats: one call of statistical_stats.                               *)
(***************************************************************************)
\* no graph, query or other call is involved
NoGraphCall ==
    /\ graph = {}
    /\ cache = <<>>
    /\ input_data = NoQuery
    /\ preparsed_data = NotPreparsed
    /\ entity = None
    /\ outcome = NotCalled

InitStats ==
    /\ retrived_arg \in SeqsUpTo(BOOLEAN, MaxRetrived)
    /\ stats_ret = NoStats
    /\ NoGraphCall
    /\ RankIdle
    /\ CacheIdle /\ CombinedIdle

StatisticalStats ==
    /\ stats_ret.state = "none"
    /\ LET ret == statistical_stats(retrived_arg)
       IN  stats_ret' = [state |-> IF ret.raised THEN "raised" ELSE "returned", exc |-> ret.exc,
                         R_Precision |-> ret.R_Precision, AvgPrec |-> ret.AvgPrec]
    /\ UNCHANGED <<graph, cache, input_data, preparsed_data, entity, outcome, retrived_arg,
                   rankVars, cacheVars, combinedVars>>

NextStats == StatisticalStats

SpecStats == InitStats /\ [][NextStats]_vars

(***************************************************************************)
(* rank                                                                    *)
(***************************************************************************)
\* the order of str on the entity identifiers
UriOrder == <<"a", "b", "c">>

UriIndex(e) == CHOOSE k \in 1..Len(UriOrder) : UriOrder[k] = e[2]

\* the comparison by score only: entries of equal score are not ordered
TupleLtByScore(x, y) == DLt(x[1], y[1])

\* tuple comparison of (score, entity): by score, then by entity
TupleLt(x, y) ==
    \/ DLt(x[1], y[1])
    \/ x[1] = y[1] /\ UriIndex(x[2]) < UriIndex(y[2])

RECURSIVE bisect_right(_, _, _, _)
bisect_right(a, x, lo, hi) ==
    IF lo < hi
    THEN LET mid == (lo + hi) \div 2
         IN  IF TupleLt(x, a[mid + 1]) THEN bisect_right(a, x, lo, mid)
             ELSE bisect_right(a, x, mid + 1, hi)
    ELSE lo

InsertAt(a, k, x) == [j \in 1..Len(a) + 1 |-> IF j <= k THEN a[j] ELSE IF j = k + 1 THEN x ELSE a[j - 1]]

\* the insertion by score only: entries of equal score stay in insertion order
insort_by_score(a, x) == InsertAt(a, Cardinality({j \in 1..Len(a) : DLeq(a[j][1], x[1])}), x)

insort_right(a, x) == InsertAt(a, bisect_right(a, x, 0, Len(a)), x)

Reverse(a) == [j \in 1..Len(a) |-> a[Len(a) + 1 - j]]

\* preparsing_function(graph, input_data) of the model rank was given
PreparsingFunction(m, c, g, query) ==
    IF m = "text" THEN [preparsed |-> _text_preparsing(g, query), cache |-> c]
    ELSE _examples_preparsing(c, g, query)

\* retrieval_model(preparsed_data, graph, entity) of the model rank was given
RetrievalModel(m, preparsed, c, g, e) ==
    IF m = "text" THEN [outcome |-> _text_retrieval_model(preparsed, g, e), cache |-> c]
    ELSE _example_retrieval_model(preparsed, c, g, e)

\* assumed amount of relevant entities
found_examples_limit == 10

RECURSIVE RetrievedWithExamples(_, _, _, _, _)
\* the loop of lines 400-409 over the merged ranking, best first
RetrievedWithExamples(merged, examples, k, count_found_examples, retrived) ==
    IF k > Len(merged) \/ count_found_examples = found_examples_limit THEN retrived
    ELSE IF merged[k][2] \in Range(examples)
    THEN RetrievedWithExamples(merged, examples, k + 1, count_found_examples + 1, Append(retrived, TRUE))
    ELSE RetrievedWithExamples(merged, examples, k + 1, count_found_examples, Append(retrived, FALSE))

\* v / max_val: scaled by the best raw score only
NormalizedScoreByMax(v, n) == DDiv(v, n.max_val)

\* (v - min_val) / norm_denominator; 0 / 0 is InvalidOperation and v / 0
\* for v # 0 is DivisionByZero
NormalizedScore(v, n) == DDiv(DSub(v, n.min_val), n.norm_denominator)

\* the list without the reversal ranking[::-1]
NormalizedRankingAscending(r, n) ==
    [j \in 1..Len(r) |-> <<NormalizedScore(r[j][1], n), r[j][2]>>]

\* the returned list: the candidates best first, with normalized scores
NormalizedRanking(r, n) ==
    [j \in 1..Len(r) |-> <<NormalizedScore(Reverse(r)[j][1], n), Reverse(r)[j][2]>>]

RankFails(e) ==
    /\ pc' = "failed"
    /\ outcome' = Raised("rank", e)
    /\ UNCHANGED <<graph, input_data, preparsed_data, model, entities_to_rank, rank_i, ranking,
                   ranking_with_examples, norm, result, cacheVars, statsVars, combinedVars>>

\* line 370: preparse before the loop
RankPreparse ==
    /\ pc = "start"
    /\ LET call == PreparsingFunction(model, cache, graph, input_data)
       IN  /\ preparsed_data' = call.preparsed
           /\ cache' = call.cache
    /\ calls' = Append(calls, <<"preparsing_function", None>>)
    /\ pc' = "candidates"
    /\ rank_i' = 1
    /\ UNCHANGED <<graph, input_data, entity, outcome, model, entities_to_rank, ranking,
                   ranking_with_examples, norm, result, cacheVars, statsVars, combinedVars>>

\* the ranking loop walking entities_to_rank from its end
RankScoreCandidateBackwards ==
    /\ pc = "candidates"
    /\ rank_i <= Len(entities_to_rank)
    /\ LET e == entities_to_rank[Len(entities_to_rank) + 1 - rank_i]
           call == RetrievalModel(model, preparsed_data, cache, graph, e)
       IN  /\ entity' = e
           /\ cache' = call.cache
           /\ calls' = Append(calls, <<"retrieval_model", e>>)
           /\ IF call.outcome.state = "raised"
              THEN RankFails(call.outcome.exc)
              ELSE /\ ranking' = insort_right(ranking, <<call.outcome.value, e>>)
                   /\ rank_i' = rank_i + 1
                   /\ UNCHANGED <<graph, input_data, preparsed_data, outcome, pc, model,
                                  entities_to_rank, ranking_with_examples, norm, result, cacheVars, statsVars, combinedVars>>

\* lines 375-384: score one entity and insert it
RankScoreCandidate ==
    /\ pc = "candidates"
    /\ rank_i <= Len(entities_to_rank)
    /\ LET call == RetrievalModel(model, preparsed_data, cache, graph, entities_to_rank[rank_i])
       IN  /\ entity' = entities_to_rank[rank_i]
           /\ cache' = call.cache
           /\ calls' = Append(calls, <<"retrieval_model", entities_to_rank[rank_i]>>)
           /\ IF call.outcome.state = "raised"
              THEN RankFails(call.outcome.exc)
              ELSE /\ ranking' = insort_right(ranking, <<call.outcome.value, entities_to_rank[rank_i]>>)
                   /\ rank_i' = rank_i + 1
                   /\ UNCHANGED <<graph, input_data, preparsed_data, outcome, pc, model,
                                  entities_to_rank, ranking_with_examples, norm, result, cacheVars, statsVars, combinedVars>>

\* lines 387-392 with a guard for the empty list: no candidate gives an
\* empty ranking and Average Precision 0
RankNormalizationEmptyRanking ==
    /\ pc = "candidates"
    /\ rank_i > Len(entities_to_rank)
    /\ UNCHANGED <<cache, entity, calls>>
    /\ IF ranking = <<>>
       THEN /\ pc' = "done"
            /\ outcome' = Returned("rank", D(0))
            /\ UNCHANGED <<graph, input_data, preparsed_data, model, entities_to_rank, rank_i, ranking,
                           ranking_with_examples, norm, result, cacheVars, statsVars, combinedVars>>
       ELSE /\ norm' = [max_val |-> ranking[Len(ranking)][1],
                       min_val |-> ranking[1][1],
                       norm_denominator |-> DSub(ranking[Len(ranking)][1], ranking[1][1])]
            /\ ranking_with_examples' = ranking
            /\ pc' = "examples"
            /\ rank_i' = 1
            /\ UNCHANGED <<graph, input_data, preparsed_data, outcome, model, entities_to_rank,
                           ranking, result, cacheVars, statsVars, combinedVars>>

\* lines 387-392: min and max of the candidates; ranking[-1] of an empty list
\* is an IndexError
RankNormalization ==
    /\ pc = "candidates"
    /\ rank_i > Len(entities_to_rank)
    /\ UNCHANGED <<cache, entity, calls>>
    /\ IF ranking = <<>>
       THEN RankFails("IndexError")
       ELSE /\ norm' = [max_val |-> ranking[Len(ranking)][1],
                       min_val |-> ranking[1][1],
                       norm_denominator |-> DSub(ranking[Len(ranking)][1], ranking[1][1])]
            /\ ranking_with_examples' = ranking
            /\ pc' = "examples"
            /\ rank_i' = 1
            /\ UNCHANGED <<graph, input_data, preparsed_data, outcome, model, entities_to_rank,
                           ranking, result, cacheVars, statsVars, combinedVars>>

\* the examples loop on an alias of ranking (no copy at line 392): every
\* example is inserted into ranking as well
RankScoreExampleAliased ==
    /\ pc = "examples"
    /\ rank_i <= Len(input_data.examples)
    /\ LET call == RetrievalModel(model, preparsed_data, cache, graph, input_data.examples[rank_i])
       IN  /\ entity' = input_data.examples[rank_i]
           /\ cache' = call.cache
           /\ calls' = Append(calls, <<"retrieval_model", input_data.examples[rank_i]>>)
           /\ IF call.outcome.state = "raised"
              THEN RankFails(call.outcome.exc)
              ELSE /\ ranking_with_examples' =
                          insort_right(ranking_with_examples, <<call.outcome.value, input_data.examples[rank_i]>>)
                   /\ ranking' = ranking_with_examples'
                   /\ rank_i' = rank_i + 1
                   /\ UNCHANGED <<graph, input_data, preparsed_data, outcome, pc, model,
                                  entities_to_rank, norm, result, cacheVars, statsVars, combinedVars>>

\* lines 393-395: score one example and insert it into the merged ranking
RankScoreExample ==
    /\ pc = "examples"
    /\ rank_i <= Len(input_data.examples)
    /\ LET call == RetrievalModel(model, preparsed_data, cache, graph, input_data.examples[rank_i])
       IN  /\ entity' = input_data.examples[rank_i]
           /\ cache' = call.cache
           /\ calls' = Append(calls, <<"retrieval_model", input_data.examples[rank_i]>>)
           /\ IF call.outcome.state = "raised"
              THEN RankFails(call.outcome.exc)
              ELSE /\ ranking_with_examples' =
                          insort_right(ranking_with_examples, <<call.outcome.value, input_data.examples[rank_i]>>)
                   /\ rank_i' = rank_i + 1
                   /\ UNCHANGED <<graph, input_data, preparsed_data, outcome, pc, model,
                                  entities_to_rank, ranking, norm, result, cacheVars, statsVars, combinedVars>>

\* lines 396-416: the Average Precision of the merged ranking and the
\* normalized ranking of the candidates
RankReturn ==
    /\ pc = "examples"
    /\ rank_i > Len(input_data.examples)
    /\ UNCHANGED <<cache, entity, calls>>
    /\ LET merged == Reverse(ranking_with_examples)
           retrived_with_examples == RetrievedWithExamples(merged, input_data.examples, 1, 0, <<>>)
           stats == statistical_stats(retrived_with_examples)
       IN  IF stats.raised THEN RankFails(stats.exc)
           ELSE IF DIsZero(norm.norm_denominator) THEN RankFails("InvalidOperation")
           ELSE /\ result' = [ap |-> stats.AvgPrec, ranking |-> NormalizedRanking(ranking, norm)]
                /\ outcome' = Returned("rank", stats.AvgPrec)
                /\ pc' = "done"
                /\ UNCHANGED <<graph, input_data, preparsed_data, model, entities_to_rank, rank_i,
                               ranking, ranking_with_examples, norm, cacheVars, statsVars, combinedVars>>

(***************************************************************************)
(* The call of rank as one evaluation, from an empty cache: what the steps *)
(* above reach for the same arguments.                                     *)
(***************************************************************************)
RECURSIVE ScoreAll(_, _, _, _, _, _)
\* the loops of lines 375-384 and 393-395: each entity is scored and inserted
ScoreAll(m, preparsed, c, g, entities, acc) ==
    IF entities = <<>> THEN [raised |-> FALSE, exc |-> "", ranking |-> acc, cache |-> c]
    ELSE LET call == RetrievalModel(m, preparsed, c, g, Head(entities))
         IN  IF call.outcome.state = "raised"
             THEN [raised |-> TRUE, exc |-> call.outcome.exc, ranking |-> acc, cache |-> call.cache]
             ELSE ScoreAll(m, preparsed, call.cache, g, Tail(entities),
                           insort_right(acc, <<call.outcome.value, Head(entities)>>))

RankRaised(e) == [state |-> "raised", exc |-> e, ap |-> NoRanking.ap, ranking |-> NoRanking.ranking]

rank(query, m, g, candidates) ==
    LET pre == PreparsingFunction(m, <<>>, g, query)
        scored == ScoreAll(m, pre.preparsed, pre.cache, g, candidates, <<>>)
    IN  IF scored.raised THEN RankRaised(scored.exc)
        ELSE IF scored.ranking = <<>> THEN RankRaised("IndexError")
        ELSE LET n == [max_val |-> scored.ranking[Len(scored.ranking)][1],
                       min_val |-> scored.ranking[1][1],
                       norm_denominator |-> DSub(scored.ranking[Len(scored.ranking)][1], scored.ranking[1][1])]
                 merged == ScoreAll(m, pre.preparsed, scored.cache, g, query.examples, scored.ranking)
             IN  IF merged.raised THEN RankRaised(merged.exc)
                 ELSE LET retrived_with_examples ==
                              RetrievedWithExamples(Reverse(merged.ranking), query.examples, 1, 0, <<>>)
                          st == statistical_stats(retrived_with_examples)
                      IN  IF st.raised THEN RankRaised(st.exc)
                          ELSE IF DIsZero(n.norm_denominator) THEN RankRaised("InvalidOperation")
                          ELSE [state |-> "returned", exc |-> "", ap |-> st.AvgPrec,
                                ranking |-> NormalizedRanking(scored.ranking, n)]

(***************************************************************************)
(* SpecRank: one call of rank_text_based or rank_examples_based.           *)
(***************************************************************************)
RankEntities == {EA, EB, EC}

RankUniverse ==
    {<<EA, P1, Literal("la")>>, <<EB, P1, Literal("la")>>, <<EC, P1, Literal("lb")>>, <<EA, P1, EB>>}

RankGraphs == SUBSET RankUniverse

RankRelations == {<<>>, <<"a">>, <<"A", " ", "b">>}

RankExampleLists == SeqsUpTo(RankEntities, 1) \cup {<<EA, EB>>, <<EB, EB>>}

InitRank ==
    /\ graph \in RankGraphs
    /\ cache = <<>>
    /\ model \in {"text", "examples"}
    /\ input_data \in [relation : IF model = "text" THEN RankRelations ELSE {<<>>},
                       examples : RankExampleLists]
    /\ entities_to_rank \in SeqsUpTo(RankEntities, MaxCandidates)
    /\ preparsed_data = NotPreparsed
    /\ entity = None
    /\ outcome = NotCalled
    /\ pc = "start"
    /\ rank_i = 0
    /\ ranking = <<>>
    /\ ranking_with_examples = <<>>
    /\ norm = NoNorm
    /\ result = NoRanking
    /\ calls = <<>>
    /\ CacheIdle /\ StatsIdle /\ CombinedIdle

NextRank ==
    \/ RankPreparse
    \/ RankScoreCandidate
    \/ RankNormalization
    \/ RankScoreExample
    \/ RankReturn

SpecRank == InitRank /\ [][NextRank]_vars

(***************************************************************************)
(* SpecRankShort: the calls of rank with no candidate or one candidate.    *)
(***************************************************************************)
InitRankShort == InitRank /\ Len(entities_to_rank) <= 1

SpecRankShort == InitRankShort /\ [][NextRank]_vars

(***************************************************************************)
(* rank_combined                                                           *)
(***************************************************************************)
(***************************************************************************)
(* SpecAP: lines 396-412 of rank on a merged ranking of candidates and     *)
(* examples: the relevance flags and their Average Precision.              *)
(***************************************************************************)
\* the merged ranking, best first, of n candidates that are no examples and
\* of the example EA, listed m - 1 times as a candidate, after the p best
\* candidates; an entity has one score, distinct entities here have distinct
\* scores
MergedEntity(n, m, p, i) ==
    IF i <= p THEN Filler(i) ELSE IF i <= p + m THEN EA ELSE Filler(i - m)

MergedScore(n, m, p, i) ==
    Norm(n + 2 - (IF i <= p THEN i ELSE IF i <= p + m THEN p + 1 ELSE i - m + 1), -2)

\* ranking_with_examples after the loop of lines 393-395: ascending
MergedRanking(n, m, p) ==
    Reverse([i \in 1..n + m |-> <<MergedScore(n, m, p, i), MergedEntity(n, m, p, i)>>])

\* n candidates, m entries of the example, p candidates before the example
MergedChoices ==
    {d \in (0..MaxMerged) \X (1..MaxMerged) \X (0..MaxMerged) : d[1] + d[2] <= MaxMerged /\ d[3] <= d[1]}

InitAP ==
    /\ ranking_with_examples \in {MergedRanking(d[1], d[2], d[3]) : d \in MergedChoices}
    /\ input_data = [relation |-> <<>>, examples |-> <<EA>>]
    /\ graph = {}
    /\ cache = <<>>
    /\ preparsed_data = NotPreparsed
    /\ entity = None
    /\ outcome = NotCalled
    /\ pc = "examples"
    /\ model = "none"
    /\ entities_to_rank = <<>>
    /\ rank_i = 0
    /\ ranking = <<>>
    /\ norm = NoNorm
    /\ result = NoRanking
    /\ calls = <<>>
    /\ StatsIdle /\ CacheIdle /\ CombinedIdle

\* lines 396-412: the flags of the merged ranking and their statistics
AveragePrecision ==
    /\ pc = "examples"
    /\ LET merged == Reverse(ranking_with_examples)
           retrived_with_examples == RetrievedWithExamples(merged, input_data.examples, 1, 0, <<>>)
           stats == statistical_stats(retrived_with_examples)
       IN  /\ retrived_arg' = retrived_with_examples
           /\ stats_ret' = [state |-> IF stats.raised THEN "raised" ELSE "returned", exc |-> stats.exc,
                            R_Precision |-> stats.R_Precision, AvgPrec |-> stats.AvgPrec]
    /\ pc' = "ap"
    /\ UNCHANGED <<graph, cache, input_data, preparsed_data, entity, outcome, model, entities_to_rank,
                   rank_i, ranking, ranking_with_examples, norm, result, calls, cacheVars, combinedVars>>

NextAP == AveragePrecision

SpecAP == InitAP /\ [][NextAP]_vars

lambda_param == Norm(5, -1)

delta_param == Norm(1, -1)

\* min and max of two Decimals; the first argument is returned for equal ones
DMin(x, y) == IF DLt(y, x) THEN y ELSE x

DMax(x, y) == IF DLt(x, y) THEN y ELSE x

\* the position of the key in the dict (0: no such key); combined_ranking is
\* held as the sequence of its (key, value) items in insertion order
ItemIndex(items, key) ==
    IF \E i \in 1..Len(items) : items[i][1] = key
    THEN CHOOSE i \in 1..Len(items) : items[i][1] = key
    ELSE 0

RECURSIVE AddScoresOverwrite(_, _, _)
\* the loop with "combined_ranking[entity] = v * weight"
AddScoresOverwrite(items, data, weight) ==
    IF data = <<>> THEN items
    ELSE LET v == Head(data)[1]
             key == Head(data)[2]
             i == ItemIndex(items, key)
         IN  AddScoresOverwrite(IF i = 0 THEN Append(items, <<key, DAdd(D(0), DMul(v, weight))>>)
                                ELSE [items EXCEPT ![i] = <<key, DMul(v, weight)>>],
                                Tail(data), weight)

RECURSIVE AddScores(_, _, _)
\* the loop "for v, entity in data: combined_ranking[entity] += v * weight";
\* a missing key starts from D() = 0
AddScores(items, data, weight) ==
    IF data = <<>> THEN items
    ELSE LET v == Head(data)[1]
             key == Head(data)[2]
             i == ItemIndex(items, key)
         IN  AddScores(IF i = 0 THEN Append(items, <<key, DAdd(D(0), DMul(v, weight))>>)
                       ELSE [items EXCEPT ![i] = <<key, DAdd(items[i][2], DMul(v, weight))>>],
                       Tail(data), weight)

RECURSIVE SortedByValueDesc(_, _)
\* sorted(items, key=value, reverse=True): stable, so items with equal values
\* keep their order; acc holds the items placed so far
SortedByValueDesc(items, acc) ==
    IF items = <<>> THEN acc
    ELSE LET x == Head(items)
             n == Cardinality({j \in 1..Len(acc) : DLeq(x[2], acc[j][2])})
         IN  SortedByValueDesc(Tail(items), InsertAt(acc, n, x))

\* lines 468-475: the fused ranking as a list of (value, key)
FusedRanking(ranking_example_data, ranking_text_data) ==
    LET combined_ranking == AddScores(AddScores(<<>>, ranking_example_data, lambda_param),
                                      ranking_text_data, DSub(D(1), lambda_param))
        sorted == SortedByValueDesc(combined_ranking, <<>>)
    IN  [j \in 1..Len(sorted) |-> <<sorted[j][2], sorted[j][1]>>]

\* the selection made also at an overlap of exactly delta_param
rank_combined_inclusive(rankings_arg) ==
    LET ranking_text == rankings_arg[1]
        ranking_example == rankings_arg[2]
        ap_example == ranking_example.ap
        ap_text == ranking_text.ap
    IN  IF DIsZero(DMax(ap_example, ap_text))
        THEN [state |-> "raised", exc |-> "InvalidOperation", branch |-> "", ap |-> D(0), ranking |-> <<>>]
        ELSE LET overlap == DDiv(DMin(ap_example, ap_text), DMax(ap_example, ap_text))
             IN  IF DLeq(overlap, delta_param) /\ DLt(ap_text, ap_example)
                 THEN [state |-> "returned", exc |-> "", branch |-> "example",
                       ap |-> ap_example, ranking |-> ranking_example.ranking]
                 ELSE IF DLeq(overlap, delta_param) /\ DLt(ap_example, ap_text)
                 THEN [state |-> "returned", exc |-> "", branch |-> "text",
                       ap |-> ap_text, ranking |-> ranking_text.ranking]
                 ELSE [state |-> "returned", exc |-> "", branch |-> "fused", ap |-> D(1),
                       ranking |-> FusedRanking(ranking_example.ranking, ranking_text.ranking)]

\* the Average Precisions are not negative, so max(...) = 0 makes line 458
\* the trapped 0 / 0
rank_combined(rankings_arg) ==
    LET ranking_text == rankings_arg[1]
        ranking_example == rankings_arg[2]
        ap_example == ranking_example.ap
        ap_text == ranking_text.ap
    IN  IF DIsZero(DMax(ap_example, ap_text))
        THEN [state |-> "raised", exc |-> "InvalidOperation", branch |-> "", ap |-> D(0), ranking |-> <<>>]
        ELSE LET overlap == DDiv(DMin(ap_example, ap_text), DMax(ap_example, ap_text))
             IN  IF DLt(overlap, delta_param) /\ DLt(ap_text, ap_example)
                 THEN [state |-> "returned", exc |-> "", branch |-> "example",
                       ap |-> ap_example, ranking |-> ranking_example.ranking]
                 ELSE IF DLt(overlap, delta_param) /\ DLt(ap_example, ap_text)
                 THEN [state |-> "returned", exc |-> "", branch |-> "text",
                       ap |-> ap_text, ranking |-> ranking_text.ranking]
                 ELSE [state |-> "returned", exc |-> "", branch |-> "fused", ap |-> D(1),
                       ranking |-> FusedRanking(ranking_example.ranking, ranking_text.ranking)]

(***************************************************************************)
(* SpecCombined: one call of rank_combined on two rankings as rank returns *)
(* them: sorted from score 1 down to score 0, equal scores in descending   *)
(* order of the entities.                                                  *)
(***************************************************************************)
APValues == {D(0), Norm(5, -2), Norm(9, -2), Norm(1, -1), Norm(5, -1), Norm(9, -1), D(1)}

ScoreValues == {D(0), Norm(333, -3), D(1)}

RankingData ==
    {r \in UNION {[1..n -> ScoreValues \X RankEntities] : n \in 2..MaxRankingLen} :
        /\ r[1][1] = D(1)
        /\ r[Len(r)][1] = D(0)
        /\ \A j \in 1..Len(r) - 1 : r[j] = r[j + 1] \/ TupleLt(r[j + 1], r[j])}

\* the rankings given with every pair of Average Precisions
SomeRankingData ==
    {<<<<D(1), EA>>, <<D(0), EB>>>>,
     <<<<D(1), EC>>, <<Norm(333, -3), EA>>, <<D(0), EB>>>>}

\* the Average Precisions given with every pair of rankings
SomeAPValues == {Norm(5, -1), Norm(9, -1)}

InitCombined ==
    /\ \/ rankings \in [ap : APValues, ranking : SomeRankingData] \X [ap : APValues, ranking : SomeRankingData]
       \/ rankings \in [ap : SomeAPValues, ranking : RankingData] \X [ap : SomeAPValues, ranking : RankingData]
    /\ combined = NoCombined
    /\ NoGraphCall
    /\ RankIdle
    /\ CacheIdle /\ StatsIdle

RankCombined ==
    /\ combined.state = "none"
    /\ combined' = rank_combined(rankings)
    /\ UNCHANGED <<graph, cache, input_data, preparsed_data, entity, outcome, rankings,
                   rankVars, cacheVars, statsVars>>

NextCombined == RankCombined

SpecCombined == InitCombined /\ [][NextCombined]_vars

(***************************************************************************)
(* Claims about the text model, checked under SpecText.                    *)
(***************************************************************************)
TextScored == outcome.fn = "_text_retrieval_model"

InUnitInterval(v) == DLeq(D(0), v) /\ DLeq(v, D(1))

\* C4: for every relation term list, every text representation and every
\* ni >= 1, _text_retrieval_model returns a value in [0,1].
C4_TextScoreInUnitInterval ==
    (TextScored /\ preparsed_data.ni >= 1) =>
        (outcome.state = "returned" /\ InUnitInterval(outcome.value))

\* a score strictly inside (0,1) for a relation term that occurs twice in a bag
C4_Witness ==
    /\ TextScored /\ outcome.state = "returned" /\ preparsed_data.ni >= 1
    /\ preparsed_data.relation # <<>>
    /\ \E t \in Range(preparsed_data.relation) :
          CopiesIn(t, _text_representation(graph, entity).attributes) = 2
    /\ DLt(D(0), outcome.value) /\ DLt(outcome.value, D(1))

WhitespaceOnly(text) == \A i \in 1..Len(text) : text[i] = " "

\* C5: when the relation normalizes to an empty term list (an empty or
\* whitespace-only string) and ni >= 1, _text_retrieval_model returns exactly
\* 1, whatever the entity's text representation.
C5_EmptyRelationScoresOne ==
    /\ (WhitespaceOnly(input_data.relation) /\ preparsed_data = _text_preparsing(graph, input_data))
          => preparsed_data.relation = <<>>
    /\ (/\ TextScored
        /\ preparsed_data.ni >= 1
        /\ \/ preparsed_data.relation = <<>>
           \/ WhitespaceOnly(input_data.relation) /\ preparsed_data = _text_preparsing(graph, input_data))
          => (outcome.state = "returned" /\ outcome.value = D(1))

\* a whitespace-only relation preparsed on a graph where the entity has terms
C5_Witness ==
    /\ TextScored /\ outcome.state = "returned"
    /\ input_data.relation # <<>> /\ WhitespaceOnly(input_data.relation)
    /\ preparsed_data = _text_preparsing(graph, input_data)
    /\ preparsed_data.ni >= 1
    /\ BagCardinality(_text_representation(graph, entity).attributes) >= 1
    /\ outcome.value = D(1)

\* one more occurrence of term t in bag cs_name of the representation
AddOccurrence(rep, cs_name, t) == [rep EXCEPT ![cs_name] = @ (+) SetToBag({t})]

\* no added occurrence of a relation term lowers the returned score
NoAddedOccurrenceLowersScore ==
    \A cs_name \in cs_names : \A t \in Range(preparsed_data.relation) :
        DLeq(outcome.value,
             DirichletScore(preparsed_data.relation, preparsed_data.ni,
                            AddOccurrence(_text_representation(graph, entity), cs_name, t)))

\* C6 as claimed: for a fixed relation of any length, possibly with several
\* distinct terms, and fixed ni >= 1, adding one more occurrence of a relation
\* term to any bag never lowers the score of _text_retrieval_model.
C6_MonotoneAnyRelation ==
    (TextScored /\ outcome.state = "returned" /\ preparsed_data.ni >= 1)
        => NoAddedOccurrenceLowersScore

\* C6 as amended: the same, for a relation whose terms are all the same term
\* (one distinct term, repeated or not).
C6_MonotoneSingleTerm ==
    (/\ TextScored /\ outcome.state = "returned" /\ preparsed_data.ni >= 1
     /\ Cardinality(Range(preparsed_data.relation)) = 1)
        => NoAddedOccurrenceLowersScore

\* a repeated single term whose added occurrence raises the score strictly
C6_Witness ==
    /\ TextScored /\ outcome.state = "returned" /\ preparsed_data.ni >= 1
    /\ Len(preparsed_data.relation) = 2
    /\ Cardinality(Range(preparsed_data.relation)) = 1
    /\ BagCardinality(_text_representation(graph, entity).attributes) >= 2
    /\ DLt(outcome.value,
           DirichletScore(preparsed_data.relation, preparsed_data.ni,
                          AddOccurrence(_text_representation(graph, entity), "attributes",
                                        preparsed_data.relation[1])))

\* C7: if the smoothing parameter ni is 0, _text_retrieval_model raises and
\* returns no score, for every relation including the empty one.
C7_ZeroNiRaises ==
    (TextScored /\ preparsed_data.ni = 0) => outcome.state = "raised"

\* the call raised for ni = 0 with an empty relation
C7_Witness ==
    /\ TextScored /\ preparsed_data.ni = 0 /\ preparsed_data.relation = <<>>
    /\ outcome.state = "raised" /\ outcome.exc = "DivisionByZero"

(***************************************************************************)
(* Claims about the example model, checked under SpecExamples.             *)
(***************************************************************************)
\* the set representations of the query's examples, in order
ExampleSets ==
    [i \in 1..Len(input_data.examples) |-> SetRepresentation(graph, input_data.examples[i])]

ExampleScored == outcome.fn = "_example_retrieval_model"

\* C8: for every example list with at least one non-empty set representation
\* and every entity, the score of _example_retrieval_model on the weights of
\* _examples_preparsing lies in [0,1], and it is exactly 0 when the entity's
\* set representation shares no triple with any example's.
C8_ExampleScoreInUnitInterval ==
    (ExampleScored /\ UNION Range(ExampleSets) # {}) =>
        /\ outcome.state = "returned"
        /\ InUnitInterval(outcome.value)
        /\ (SetRepresentation(graph, entity) \cap UNION Range(ExampleSets) = {}) => outcome.value = D(0)

\* each membership pair (tr, x) counted once: the sum over the distinct triples
DenominatorDistinct(representations) ==
    SumNominators(UNION Range(representations), representations)

\* C9: in _examples_preparsing the denominator is the number of (triple,
\* example set) membership pairs, each counted once, and the weight of a
\* triple is the number of examples holding it divided by that denominator,
\* also when a triple belongs to two or more examples.
C9_DenominatorCountsPairsOnce ==
    preparsed_data.kind = "examples" =>
        /\ Denominator(ExampleSets) = DenominatorDistinct(ExampleSets)
        /\ \A tr \in DOMAIN preparsed_data.weights :
              preparsed_data.weights[tr] =
                  DDiv(D(Nominator(tr, ExampleSets)), D(DenominatorDistinct(ExampleSets)))

\* C10: when the denominator of example preparsing is 0 (no example, or only
\* examples with an empty set representation), _examples_preparsing raises
\* instead of returning a weight map.
C10_ZeroDenominatorRaises ==
    (outcome.fn = "_examples_preparsing" /\ Denominator(ExampleSets) = 0) =>
        (outcome.state = "raised" /\ preparsed_data.kind # "examples")

(***************************************************************************)
(* Claims about rank, checked under SpecRank.                              *)
(***************************************************************************)
\* the raw scores of the candidates scored so far
RawScores == {ranking[j][1] : j \in 1..Len(ranking)}

MinRaw == CHOOSE v \in RawScores : \A w \in RawScores : DLeq(v, w)

MaxRaw == CHOOSE v \in RawScores : \A w \in RawScores : DLeq(w, v)

\* every candidate was scored, and not all raw scores are equal
RawScoresDiffer ==
    /\ Len(ranking) = Len(entities_to_rank)
    /\ Cardinality(RawScores) >= 2

\* every candidate was scored, and all raw scores are equal
RawScoresAllEqual ==
    /\ Len(ranking) = Len(entities_to_rank)
    /\ Cardinality(RawScores) = 1

\* C1: for every non-empty candidate list whose raw scores are not all equal,
\* the ranking returned by rank() is sorted by score in non-increasing order.
C1_RankingSortedDescending ==
    (pc = "done" /\ RawScoresDiffer) =>
        /\ Len(result.ranking) = Len(entities_to_rank)
        /\ \A j \in 1..Len(result.ranking) - 1 :
              DLeq(result.ranking[j + 1][1], result.ranking[j][1])

\* a returned ranking of three entries with a tie and a strict descent
C1_Witness ==
    /\ pc = "done" /\ RawScoresDiffer
    /\ Len(result.ranking) = 3
    /\ \E j \in 1..2 : result.ranking[j + 1][1] = result.ranking[j][1]
    /\ \E j \in 1..2 : DLt(result.ranking[j + 1][1], result.ranking[j][1])

\* C2: for every candidate list whose raw scores are not all equal, every
\* normalized score returned by rank() lies in [0,1], the first entry has
\* score exactly 1 and the last exactly 0, each being (v - min) / (max - min)
\* over the candidates' raw scores.
C2_MinMaxNormalized ==
    (pc = "done" /\ RawScoresDiffer) =>
        /\ result.ranking[1][1] = D(1)
        /\ result.ranking[Len(result.ranking)][1] = D(0)
        /\ \A j \in 1..Len(result.ranking) :
              /\ InUnitInterval(result.ranking[j][1])
              /\ \E k \in 1..Len(ranking) :
                    /\ ranking[k][2] = result.ranking[j][2]
                    /\ result.ranking[j][1] = DDiv(DSub(ranking[k][1], MinRaw), DSub(MaxRaw, MinRaw))

\* a returned ranking with a score strictly between 0 and 1, from raw scores
\* whose minimum is not 0
C2_Witness ==
    /\ pc = "done" /\ RawScoresDiffer
    /\ ~DIsZero(MinRaw)
    /\ \E j \in 1..Len(result.ranking) :
          DLt(D(0), result.ranking[j][1]) /\ DLt(result.ranking[j][1], D(1))

\* C3: when all candidates receive the same raw score (which includes every
\* call with exactly one candidate), rank() returns a ranking whose entries
\* all have normalized score 0, and no division error occurs.
C3_AllEqualScoresGiveZeros ==
    (pc \in {"done", "failed"} /\ RawScoresAllEqual) =>
        /\ pc = "done"
        /\ Len(result.ranking) = Len(entities_to_rank)
        /\ \A j \in 1..Len(result.ranking) : result.ranking[j][1] = D(0)

(***************************************************************************)
(* SpecRankOrder: one call of rank on every candidate list, hence on every *)
(* permutation of it, over the graphs in which EA has its literal and the  *)
(* candidates can tie (EA and EB share "la") or differ (EC has "lb").      *)
(***************************************************************************)
OrderGraphs == {g \in RankGraphs : <<EA, P1, Literal("la")>> \in g}

OrderExampleLists == {<<>>, <<EA>>, <<EC>>, <<EA, EB>>}

InitRankOrder ==
    /\ InitRank
    /\ graph \in OrderGraphs
    /\ input_data.examples \in OrderExampleLists

SpecRankOrder == InitRankOrder /\ [][NextRank]_vars

\* how the call of rank ended
RankOutcome ==
    [state |-> IF pc = "done" THEN "returned" ELSE "raised",
     exc |-> IF pc = "done" THEN "" ELSE outcome.exc,
     ap |-> result.ap, ranking |-> result.ranking]

\* the list with the entries at positions k and k + 1 exchanged
Swapped(a, k) == [j \in 1..Len(a) |-> IF j = k THEN a[k + 1] ELSE IF j = k + 1 THEN a[k] ELSE a[j]]

\* C20: ties in rank() are broken by the entity identifiers and not by the
\* input order: entries of equal score appear in descending identifier order,
\* and rank() on a permutation of the candidate list (same query, same graph)
\* returns the same Average Precision and the same sequence of entries.  Every
\* permutation is a product of exchanges of neighbours, and every candidate
\* list is an initial state.
C20_TiesByEntityNotInputOrder ==
    pc \in {"done", "failed"} =>
        /\ \A candidates \in {entities_to_rank} \cup
                               {Swapped(entities_to_rank, k) : k \in 1..Len(entities_to_rank) - 1} :
              rank(input_data, model, graph, candidates) = RankOutcome
        /\ \A j \in 1..Len(result.ranking) - 1 :
              result.ranking[j][1] = result.ranking[j + 1][1] =>
                  UriIndex(result.ranking[j][2]) >= UriIndex(result.ranking[j + 1][2])

\* a returned ranking in which two different entities tie, given in ascending
\* identifier order in the candidate list
C20_Witness ==
    /\ pc = "done"
    /\ Len(result.ranking) = 3
    /\ \E j \in 1..2 :
          /\ result.ranking[j][1] = result.ranking[j + 1][1]
          /\ UriIndex(result.ranking[j][2]) > UriIndex(result.ranking[j + 1][2])
          /\ \E a, b \in 1..3 :
                /\ a < b
                /\ entities_to_rank[a] = result.ranking[j + 1][2]
                /\ entities_to_rank[b] = result.ranking[j][2]

(***************************************************************************)
(* Claims about the cache of set representations, checked under SpecCache. *)
(***************************************************************************)
\* C11: two calls of _examples_preparsing with the same graph (not mutated in
\* between) and the same example list return equal triple-to-weight maps,
\* whatever was looked up, cached or evicted between the calls.
C11_PreparsingRepeatable ==
    [][(preparsed_data.kind = "examples" /\ preparsed_data'.kind = "examples")
          => preparsed_data' = preparsed_data]_vars

\* a second call of _examples_preparsing has returned a non-empty map after
\* the long candidate list filled the cache
C11_Witness ==
    /\ preparsings = 2
    /\ outcome.fn = "_examples_preparsing"
    /\ scan_i = ScanLen
    /\ Len(cache) = lru_maxsize
    /\ cache[Len(cache)].entity \in Range(input_data.examples)
    /\ Cardinality(DOMAIN preparsed_data.weights) >= 2

\* C18: on a graph that is not mutated, after any sequence of
\* _triples_set_representation calls, evictions included, the set returned
\* for (graph, entity) is the set a fresh computation from the graph gives,
\* so two calls for the same pair return equal sets.
C18_CachedEqualsFresh ==
    triples_set.state = "returned" =>
        triples_set.result = SetRepresentation(graph, triples_set.entity)

\* the first entity of the long candidate list was evicted and is computed
\* again, to a non-empty set
C18_Witness ==
    /\ triples_set.state = "returned"
    /\ scan_i = ScanLen
    /\ triples_set.entity = Filler(1)
    /\ ~triples_set.hit
    /\ triples_set.result # {}
    /\ Len(cache) = lru_maxsize

(***************************************************************************)
(* Claims about the cache and PPGraph.parse, checked under SpecParse.      *)
(***************************************************************************)
\* C19: the cache is invalidated when the graph is mutated: after
\* PPGraph.parse added triples, a call of _triples_set_representation(graph, e)
\* returns the set computed from the mutated graph, also when e was looked up
\* before the mutation.
C19_CacheInvalidatedByParse ==
    [][triples_set' # triples_set =>
          triples_set'.result = SetRepresentation(graph', triples_set'.entity)]_vars

(***************************************************************************)
(* Claims about statistical_stats, checked under SpecStats.                *)
(***************************************************************************)
RECURSIVE Factorial(_)
Factorial(n) == IF n = 0 THEN 1 ELSE n * Factorial(n - 1)

\* the decimal x is num / den up to the rounding of the context:
\* |x - num / den| <= 10^(1 - prec)
WithinRounding(x, num, den) ==
    LET k == IF x[2] < 0 THEN 0 - x[2] ELSE 0
        c == IF x[2] < 0 THEN x[1] ELSE x[1] * Pow10(x[2])
        diff == IF c * den >= num * Pow10(k) THEN c * den - num * Pow10(k) ELSE num * Pow10(k) - c * den
    IN  IF k >= prec - 1 THEN diff <= den * Pow10(k + 1 - prec)
        ELSE diff * Pow10(prec - 1 - k) <= den

\* the number of true entries among positions 1..i
TrueUpTo(r, i) == Cardinality({j \in 1..i : r[j]})

RECURSIVE SumOverTrue(_, _, _)
\* the sum over the true positions i of f[i], for i from 1 to Len(r)
SumOverTrue(r, f, i) ==
    IF i > Len(r) THEN 0
    ELSE (IF r[i] THEN f[i] ELSE 0) + SumOverTrue(r, f, i + 1)

\* N! times the sum over the true positions i of TrueUpTo(i) / i
PrecisionSum(r) ==
    SumOverTrue(r, [i \in 1..Len(r) |-> TrueUpTo(r, i) * (Factorial(Len(r)) \div i)], 1)

\* C12: for every non-empty relevance sequence of length N, statistical_stats
\* returns R-Precision = (number of true entries) / N and AvgPrec = (1 / N)
\* times the sum over the true positions i of (true entries in 1..i) / i, each
\* as a Decimal within the rounding of the context.
C12_StatsFormulas ==
    (stats_ret.state # "none" /\ retrived_arg # <<>>) =>
        LET N == Len(retrived_arg)
        IN  /\ stats_ret.state = "returned"
            /\ stats_ret.R_Precision = DDiv(D(TrueUpTo(retrived_arg, N)), D(N))
            /\ WithinRounding(stats_ret.R_Precision, TrueUpTo(retrived_arg, N), N)
            /\ WithinRounding(stats_ret.AvgPrec, PrecisionSum(retrived_arg), N * Factorial(N))

\* statistical_stats returned for a sequence with a false entry before a true
\* one and an Average Precision that is not a whole number
C12_Witness ==
    /\ stats_ret.state = "returned"
    /\ \E i, j \in 1..Len(retrived_arg) : i < j /\ ~retrived_arg[i] /\ retrived_arg[j]
    /\ DLt(D(0), stats_ret.AvgPrec) /\ DLt(stats_ret.AvgPrec, D(1))

\* C13 as stated: for [true, false, true, false] statistical_stats returns
\* R-Precision = 1/2 and AvgPrec = (1/1 + 2/3) / 2 = 5/6.
C13_ExampleFiveSixths ==
    (stats_ret.state # "none" /\ retrived_arg = <<TRUE, FALSE, TRUE, FALSE>>) =>
        /\ stats_ret.state = "returned"
        /\ stats_ret.R_Precision = Norm(5, -1)
        /\ WithinRounding(stats_ret.AvgPrec, 5, 6)

\* C13 amended: for [true, false, true, false] statistical_stats returns
\* R-Precision = 1/2 and AvgPrec = (1/1 + 2/3) / 4 = 5/12: the sum is divided
\* by the length of the sequence, not by the number of true entries.
C13_ExampleFiveTwelfths ==
    (stats_ret.state # "none" /\ retrived_arg = <<TRUE, FALSE, TRUE, FALSE>>) =>
        /\ stats_ret.state = "returned"
        /\ stats_ret.R_Precision = Norm(5, -1)
        /\ WithinRounding(stats_ret.AvgPrec, 5, 12)

C13_Witness ==
    /\ stats_ret.state = "returned"
    /\ retrived_arg = <<TRUE, FALSE, TRUE, FALSE>>
    /\ stats_ret.AvgPrec = DDiv(DAdd(D(1), DDiv(D(2), D(3))), D(4))

\* C14: statistical_stats called with an empty relevance sequence signals an
\* error and returns no result.
C14_EmptyStatsRaises ==
    (stats_ret.state # "none" /\ retrived_arg = <<>>) => stats_ret.state = "raised"

C14_Witness ==
    /\ retrived_arg = <<>>
    /\ stats_ret.state = "raised"
    /\ stats_ret.exc = "InvalidOperation"

(***************************************************************************)
(* Claims about rank_combined, checked under SpecCombined.                 *)
(***************************************************************************)
ap_text_arg == rankings[1].ap

ap_example_arg == rankings[2].ap

\* min(AP) / max(AP) < 0.1, stated without a division: 10 * min < max
OverlapBelowDelta ==
    DLt(DMul(D(10), DMin(ap_example_arg, ap_text_arg)), DMax(ap_example_arg, ap_text_arg))

\* C15: for two Average Precisions that are not both 0, rank_combined returns
\* the (AP, ranking) pair of the model with the larger AP, unchanged, if and
\* only if min(AP) / max(AP) < 0.1; in every other case, a ratio of exactly
\* 0.1 and equal APs included, it returns a fused ranking.
C15_SelectsIffOverlapBelowDelta ==
    (combined.state # "none" /\ ~(DIsZero(ap_text_arg) /\ DIsZero(ap_example_arg))) =>
        /\ combined.state = "returned"
        /\ IF OverlapBelowDelta
           THEN LET better == IF DLt(ap_text_arg, ap_example_arg) THEN rankings[2] ELSE rankings[1]
                IN  /\ combined.branch \in {"text", "example"}
                    /\ combined.ap = better.ap
                    /\ combined.ranking = better.ranking
                    /\ DLeq(ap_text_arg, better.ap) /\ DLeq(ap_example_arg, better.ap)
           ELSE combined.branch = "fused"

\* APs 0.9 (text) and 0.05 (example): the text ranking is returned
C15_Witness ==
    /\ combined.state = "returned"
    /\ ap_text_arg = Norm(9, -1) /\ ap_example_arg = Norm(5, -2)
    /\ combined.branch = "text"
    /\ combined.ranking = rankings[1].ranking
    /\ rankings[1].ranking # rankings[2].ranking

\* the entities of a ranking
EntitiesOf(data) == {data[j][2] : j \in 1..Len(data)}

\* every entity is listed at most once
Injective(data) == \A i, j \in 1..Len(data) : data[i][2] = data[j][2] => i = j

\* the score of the entity in the ranking, 0 for a ranking that lacks it
ScoreIn(data, e) ==
    IF e \in EntitiesOf(data) THEN data[CHOOSE j \in 1..Len(data) : data[j][2] = e][1] ELSE D(0)

\* C16: on the fusion branch, when each input ranking lists every entity at
\* most once, the output holds each entity of either input exactly once, with
\* score 0.5 * score_example(e) + 0.5 * score_text(e) (0 for a ranking that
\* lacks e), sorted by fused score in non-increasing order.
C16_FusedRanking ==
    (combined.branch = "fused" /\ Injective(rankings[1].ranking) /\ Injective(rankings[2].ranking)) =>
        /\ EntitiesOf(combined.ranking) = EntitiesOf(rankings[1].ranking) \cup EntitiesOf(rankings[2].ranking)
        /\ Injective(combined.ranking)
        /\ \A j \in 1..Len(combined.ranking) :
              combined.ranking[j][1] =
                  DAdd(DMul(Norm(5, -1), ScoreIn(rankings[2].ranking, combined.ranking[j][2])),
                       DMul(Norm(5, -1), ScoreIn(rankings[1].ranking, combined.ranking[j][2])))
        /\ \A j \in 1..Len(combined.ranking) - 1 :
              DLeq(combined.ranking[j + 1][1], combined.ranking[j][1])

\* a fused ranking with an entity of both inputs that scores in both, an
\* entity of one input only, and three different fused scores
C16_Witness ==
    /\ combined.branch = "fused"
    /\ Injective(rankings[1].ranking) /\ Injective(rankings[2].ranking)
    /\ \E e \in EntitiesOf(rankings[1].ranking) \cap EntitiesOf(rankings[2].ranking) :
          ~DIsZero(ScoreIn(rankings[1].ranking, e)) /\ ~DIsZero(ScoreIn(rankings[2].ranking, e))
    /\ EntitiesOf(rankings[1].ranking) # EntitiesOf(rankings[2].ranking)
    /\ Cardinality({combined.ranking[j][1] : j \in 1..Len(combined.ranking)}) >= 3

\* C17: when both Average Precisions are 0, rank_combined treats the overlap
\* as 1 and returns the fused ranking, without raising a division error.
C17_ZeroAPsFuse ==
    (combined.state # "none" /\ DIsZero(ap_text_arg) /\ DIsZero(ap_example_arg)) =>
        /\ combined.state = "returned"
        /\ combined.branch = "fused"

(***************************************************************************)
(* Claims about the order, the Average Precision and the steps of rank,    *)
(* checked under SpecRank.                                                 *)
(***************************************************************************)
\* the score the retrieval model gave to a scored candidate
RawScoreOf(e) == ranking[CHOOSE k \in 1..Len(ranking) : ranking[k][2] = e][1]

\* the positions of an entity in the candidate list
InputPositions(e) == {a \in 1..Len(entities_to_rank) : entities_to_rank[a] = e}

\* C21 as stated: in the ranking returned by rank(), of two distinct
\* candidates with equal score the one that comes later in entities_to_rank
\* comes earlier in the output.
C21_TiesReverseInsertion ==
    pc = "done" =>
        \A j, k \in 1..Len(result.ranking) :
            (/\ j < k
             /\ result.ranking[j][2] # result.ranking[k][2]
             /\ RawScoreOf(result.ranking[j][2]) = RawScoreOf(result.ranking[k][2]))
            => \A a \in InputPositions(result.ranking[j][2]), b \in InputPositions(result.ranking[k][2]) :
                  a > b

\* C21 (amended): in the ranking returned by rank(), two distinct candidates
\* with equal score appear in descending order of their identifiers, wherever
\* they come in entities_to_rank: the one with the greater identifier comes
\* earlier in the output.
C21_TiesDescendingIdentifier ==
    pc = "done" =>
        \A j, k \in 1..Len(result.ranking) :
            (/\ j < k
             /\ result.ranking[j][2] # result.ranking[k][2]
             /\ RawScoreOf(result.ranking[j][2]) = RawScoreOf(result.ranking[k][2]))
            => /\ UriIndex(result.ranking[j][2]) > UriIndex(result.ranking[k][2])
               /\ result.ranking[j][1] = result.ranking[k][1]

\* a returned ranking in which two distinct candidates tie and the one that
\* came first in entities_to_rank also comes first in the output
C21_Witness ==
    /\ pc = "done"
    /\ \E j, k \in 1..Len(result.ranking) :
          /\ j < k
          /\ result.ranking[j][2] # result.ranking[k][2]
          /\ RawScoreOf(result.ranking[j][2]) = RawScoreOf(result.ranking[k][2])
          /\ \E a \in InputPositions(result.ranking[j][2]), b \in InputPositions(result.ranking[k][2]) :
                a < b

(***************************************************************************)
(* Claim about the Average Precision of rank, checked under SpecAP.        *)
(***************************************************************************)
\* the relevance flags of the first found_examples_limit = 10 positions of
\* the merged ranking
TopTenFlags ==
    LET merged == Reverse(ranking_with_examples)
        k == IF Len(merged) < found_examples_limit THEN Len(merged) ELSE found_examples_limit
    IN  [j \in 1..k |-> merged[j][2] \in Range(input_data.examples)]

\* C22: the Average Precision of rank() is computed from the relevance flags
\* of only the top K = 10 positions of the merged ranking of candidates and
\* examples; positions after the 10th never influence it.
C22_APFromTopTen ==
    pc = "ap" =>
        /\ retrived_arg = TopTenFlags
        /\ stats_ret.AvgPrec = statistical_stats(TopTenFlags).AvgPrec

\* the entities rank gives to the retrieval model, in order: the candidates,
\* then the examples
ScoringOrder == entities_to_rank \o input_data.examples

\* the calls made so far are the preparsing and then the retrieval model on
\* the first entities of ScoringOrder
CallsInOrder ==
    /\ (pc = "start") = (calls = <<>>)
    /\ Len(calls) <= 1 + Len(ScoringOrder)
    /\ \A k \in 1..Len(calls) :
          IF k = 1 THEN calls[k] = <<"preparsing_function", None>>
          ELSE calls[k] = <<"retrieval_model", ScoringOrder[k - 1]>>
    /\ pc = "candidates" => Len(calls) = rank_i
    /\ pc = "examples" => Len(calls) = Len(entities_to_rank) + rank_i
    /\ pc = "done" => Len(calls) = 1 + Len(ScoringOrder)

\* C23: in every execution of rank() the preparsing function is invoked
\* exactly once and completes before the first invocation of the retrieval
\* model; every candidate and every example is then scored with that same
\* preparsed data, candidates in input order and all candidates before any
\* example.
C23_PreparseOnceThenScoreInOrder ==
    /\ []CallsInOrder
    /\ [][/\ pc = "start" => preparsed_data' = PreparsingFunction(model, cache, graph, input_data).preparsed
          /\ pc # "start" => preparsed_data' = preparsed_data]_vars

\* a returned call that scored three candidates, not all the same, and two
\* examples
C23_Witness ==
    /\ pc = "done"
    /\ Len(entities_to_rank) = 3
    /\ entities_to_rank[1] # entities_to_rank[3]
    /\ Len(input_data.examples) = 2
    /\ Len(calls) = 6

\* the call failed on the degenerate normalization denominator max == min
\* (line 416); an empty example set or a zero-length relation makes rank fail
\* in this way only, by giving every candidate the same score
FailedOnDegenerateDenominator ==
    /\ pc = "failed"
    /\ outcome.exc = "InvalidOperation"
    /\ ranking_with_examples # <<>>
    /\ rank_i > Len(input_data.examples)
    /\ DIsZero(norm.norm_denominator)

\* C24: validation errors of a rank() call (empty example set, zero-length
\* relation, degenerate normalization denominator max == min) are raised
\* before any candidate has been scored: in no execution is the retrieval
\* model invoked on a candidate and the call fails afterwards with one of
\* these errors.
C24_ValidationBeforeScoring ==
    FailedOnDegenerateDenominator =>
        \A k \in 1..Len(calls) : calls[k][1] # "retrieval_model"

(***************************************************************************)
(* Claims about the set representation, checked under SpecRepresentation.  *)
(***************************************************************************)
\* the literal attributes, the outlinks to URIs and the inlinks of e, read
\* from the triples of the store
LiteralAttributes(g, e) ==
    {<<None, tr[2], tr[3]>> : tr \in {t \in g : t[1] = e /\ IsLiteral(t[3]) /\ LitLang(t[3][2]) \in LANGS}}

UriOutlinks(g, e) == {tr \in g : tr[1] = e /\ IsURIRef(tr[3])}

Inlinks(g, e) == {tr \in g : tr[3] = e /\ ~IsBNode(tr[1])}

\* C25: for every graph and entity e, _triples_set_representation returns
\* exactly (null, p, o) for each triple (e, p, o) whose object is a literal
\* with an accepted language tag, (e, p, o) for each triple (e, p, o) whose
\* object is a URI, (s, p, e) for each triple whose object is e and whose
\* subject is not a blank node, and no other element.
C25_SetRepresentationExact ==
    triples_set.state = "returned" =>
        triples_set.result =
            LiteralAttributes(graph, triples_set.entity) \cup UriOutlinks(graph, triples_set.entity)
                \cup Inlinks(graph, triples_set.entity)

\* a computed representation of EA with a literal attribute, an outlink and
\* an inlink, on a graph that also has a literal in another language and
\* blank nodes at both ends
C25_Witness ==
    /\ triples_set.state = "returned" /\ ~triples_set.hit
    /\ triples_set.entity = EA
    /\ {<<EA, P1, Literal("lde")>>, <<BNode("b0"), P1, EA>>, <<EA, P1, BNode("b0")>>} \subseteq graph
    /\ {<<None, P1, Literal("la")>>, <<EA, RDF_type, U1>>, <<EB, P1, EA>>} \subseteq triples_set.result

(***************************************************************************)
(* Claim about the Dirichlet formula, checked under SpecText.              *)
(***************************************************************************)
\* digits after the point of the fixed-point reference value
RefDigits == prec + 2

\* 0.4 (tf_a + 1) / (|a| + ni) + 0.4 (tf_t + 1) / (|t| + ni)
\*     + 0.2 (tf_l + 1) / (|l| + ni) as the fraction TermNum / TermDen
TermNum(t, ni, rep) ==
    2 * (CopiesIn(t, rep.attributes) + 1) * (BagCardinality(rep.types) + ni) * (BagCardinality(rep.links) + ni)
        + 2 * (CopiesIn(t, rep.types) + 1) * (BagCardinality(rep.attributes) + ni) * (BagCardinality(rep.links) + ni)
        + (CopiesIn(t, rep.links) + 1) * (BagCardinality(rep.attributes) + ni) * (BagCardinality(rep.types) + ni)

TermDen(ni, rep) ==
    5 * (BagCardinality(rep.attributes) + ni) * (BagCardinality(rep.types) + ni) * (BagCardinality(rep.links) + ni)

RECURSIVE DirichletProduct(_, _, _, _)
\* the product over the terms of the relation, with repetitions, in units of
\* 10^-RefDigits; each factor is rounded down, by less than one unit
DirichletProduct(relation, ni, rep, acc) ==
    IF relation = <<>> THEN acc
    ELSE DirichletProduct(Tail(relation), ni, rep, (acc * TermNum(Head(relation), ni, rep)) \div TermDen(ni, rep))

\* a decimal in units of 10^-RefDigits, rounded down
InRefUnits(x) ==
    IF x[2] + RefDigits >= 0 THEN x[1] * Pow10(x[2] + RefDigits) ELSE x[1] \div Pow10(0 - (x[2] + RefDigits))

\* x is the value ref (in units of 10^-RefDigits, rounded down in n + 1
\* places) up to the rounding of the context: a relative error of at most
\* 10^(1 - prec)
WithinRelativeRounding(x, ref, n) ==
    LET diff == IF InRefUnits(x) >= ref THEN InRefUnits(x) - ref ELSE ref - InRefUnits(x)
    IN  diff <= ref \div Pow10(prec - 1) + n + 1

\* C26: for every relation term list R, representation and ni >= 1,
\* _text_retrieval_model returns the product over the terms t of R (with
\* repetitions) of 0.4 (tf_attributes(t) + 1) / (|attributes| + ni)
\* + 0.4 (tf_types(t) + 1) / (|types| + ni) + 0.2 (tf_links(t) + 1) / (|links| + ni),
\* where |bag| is the total term count of the bag (up to the rounding of the
\* decimal context).
C26_DirichletFormula ==
    (TextScored /\ preparsed_data.ni >= 1) =>
        /\ outcome.state = "returned"
        /\ WithinRelativeRounding(outcome.value,
                                  DirichletProduct(preparsed_data.relation, preparsed_data.ni,
                                                   _text_representation(graph, entity), Pow10(RefDigits)),
                                  Len(preparsed_data.relation))

\* a score for a relation with a repeated term that occurs in one bag and
\* not in another non-empty bag
C26_Witness ==
    /\ TextScored /\ outcome.state = "returned" /\ preparsed_data.ni >= 2
    /\ Len(preparsed_data.relation) = 2
    /\ preparsed_data.relation[1] = preparsed_data.relation[2]
    /\ LET rep == _text_representation(graph, entity)
       IN  /\ CopiesIn(preparsed_data.relation[1], rep.attributes) >= 1
           /\ rep.types # EmptyBag
           /\ CopiesIn(preparsed_data.relation[1], rep.types) = 0

\* the score of the retrieval model for an entity, with the preparsed data of
\* the call
ModelScore(e) == RetrievalModel(model, preparsed_data, <<>>, graph, e).outcome.value

\* the least and the greatest of a set of scores
MinScore(scores) == CHOOSE v \in scores : \A w \in scores : DLeq(v, w)

MaxScore(scores) == CHOOSE v \in scores : \A w \in scores : DLeq(w, v)

\* the returned list has the candidates, each as often as entities_to_rank,
\* with scores normalized by the minimum and maximum over the candidates
ReturnedCandidatesOnly ==
    pc = "done" =>
        LET score == [e \in Range(entities_to_rank) |-> ModelScore(e)]
            scores == {score[e] : e \in DOMAIN score}
            min_val == MinScore(scores)
            denominator == DSub(MaxScore(scores), min_val)
        IN  /\ Len(result.ranking) = Len(entities_to_rank)
            /\ \A j \in 1..Len(result.ranking) :
                  /\ result.ranking[j][2] \in Range(entities_to_rank)
                  /\ result.ranking[j][1] = DDiv(DSub(score[result.ranking[j][2]], min_val), denominator)
            /\ \A e \in Range(entities_to_rank) :
                  Cardinality({j \in 1..Len(result.ranking) : result.ranking[j][2] = e})
                      = Cardinality(InputPositions(e))

\* C27: the ranking list returned by rank() contains exactly one entry per
\* element of entities_to_rank (same entities with the same multiplicities,
\* nothing else): scoring the examples and merging them for the Average
\* Precision adds no example entry to the returned list and changes no
\* returned score, and the minimum and maximum used for the normalization
\* come from the candidates only.
C27_ExamplesLeaveRankingAlone ==
    /\ []ReturnedCandidatesOnly
    /\ [][pc = "examples" => (ranking' = ranking /\ norm' = norm)]_vars

\* a returned ranking for a call with an example that is no candidate and
\* scores above every candidate
C27_Witness ==
    /\ pc = "done"
    /\ \E x \in Range(input_data.examples) :
          /\ x \notin Range(entities_to_rank)
          /\ DLt(MaxScore({ModelScore(e) : e \in Range(entities_to_rank)}), ModelScore(x))
    /\ Len(ranking_with_examples) > Len(result.ranking)

(***************************************************************************)
(* Claims about the weights and the shared triples of the example model,   *)
(* checked under SpecExamples.                                             *)
(***************************************************************************)
\* digits after the point in which the weights are summed exactly
WeightDigits == prec + 3

RECURSIVE WeightSum(_, _)
\* the exact sum of the weights of a set of triples, in units of
\* 10^-WeightDigits
WeightSum(weights, trs) ==
    IF trs = {} THEN 0
    ELSE LET tr == CHOOSE x \in trs : TRUE
         IN  weights[tr][1] * Pow10(weights[tr][2] + WeightDigits) + WeightSum(weights, trs \ {tr})

\* no triple belongs to the set representations of two examples of the list
NoSharedTriple ==
    \A i, j \in 1..Len(ExampleSets) : i # j => ExampleSets[i] \cap ExampleSets[j] = {}

\* C28: for every example list producing at least one triple, the weights
\* returned by _examples_preparsing are each in (0,1] and their sum over all
\* distinct triples is at most 1; the sum equals 1 exactly when no triple
\* belongs to the set representations of two different examples (the same
\* example listed twice counts as two).
C28_WeightsSumToAtMostOne ==
    (preparsed_data.kind = "examples" /\ DOMAIN preparsed_data.weights # {}) =>
        /\ \A tr \in DOMAIN preparsed_data.weights :
              DLt(D(0), preparsed_data.weights[tr]) /\ DLeq(preparsed_data.weights[tr], D(1))
        /\ WeightSum(preparsed_data.weights, DOMAIN preparsed_data.weights) <= Pow10(WeightDigits)
        /\ (WeightSum(preparsed_data.weights, DOMAIN preparsed_data.weights) = Pow10(WeightDigits))
              <=> NoSharedTriple

\* the triple is a literal attribute that both entities have in the graph
CommonLiteralAttribute(tr, a, b) ==
    /\ tr[1] = None
    /\ IsLiteral(tr[3])
    /\ <<a, tr[2], tr[3]>> \in graph
    /\ <<b, tr[2], tr[3]>> \in graph

\* the triple links the two entities directly
DirectLink(tr, a, b) == (tr[1] = a /\ tr[3] = b) \/ (tr[1] = b /\ tr[3] = a)

\* the scored entity is no example, has no literal attribute in common with
\* an example and no direct link with one
UnrelatedToExamples ==
    \A x \in Range(input_data.examples) :
        /\ x # entity
        /\ \A tr \in graph :
              /\ ~DirectLink(tr, entity, x)
              /\ ~(tr[1] = entity /\ IsLiteral(tr[3]) /\ <<x, tr[2], tr[3]>> \in graph)

\* C29: for every graph and every two distinct entities a and b, a triple
\* belongs to both _triples_set_representation(graph, a) and
\* _triples_set_representation(graph, b) only if it is a literal-attribute
\* triple (null, p, literal) that both entities have, or a triple that links
\* the two entities directly; two entities that merely point to the same URI
\* object with the same predicate share no triple, so such a candidate gets
\* no example-based score from it.
C29_SharedTriplesOnly ==
    /\ \A i, j \in 1..Len(cache) :
          cache[i].entity # cache[j].entity =>
              \A tr \in cache[i].result \cap cache[j].result :
                  \/ CommonLiteralAttribute(tr, cache[i].entity, cache[j].entity)
                  \/ DirectLink(tr, cache[i].entity, cache[j].entity)
    /\ (ExampleScored /\ UnrelatedToExamples) =>
          (outcome.state = "returned" /\ outcome.value = D(0))

\* EB scored against the example EA: both point to U1 with rdf:type, EA has
\* other triples as well, and the two representations are in the cache
C29_Witness ==
    /\ ExampleScored /\ UnrelatedToExamples
    /\ entity = EB
    /\ input_data.examples = <<EA>>
    /\ {<<EA, RDF_type, U1>>, <<EB, RDF_type, U1>>} \subseteq graph
    /\ \E i, j \in 1..Len(cache) :
          /\ cache[i].entity = EA /\ cache[j].entity = EB
          /\ <<EA, RDF_type, U1>> \in cache[i].result
          /\ <<EB, RDF_type, U1>> \in cache[j].result
    /\ preparsed_data.weights[<<EA, RDF_type, U1>>] # D(0)

\* C30: rank() called with an empty entities_to_rank list terminates with an
\* error and returns no ranking (it never returns an empty ranking), and that
\* error is raised only after the preparsing function has already run.
\* Termination: with no candidate the call has two steps, the preparsing and
\* then the failure, and after the preparsing the loop of line 375 is over,
\* so that line 387 is the statement to run.
EmptyCandidatesState ==
    entities_to_rank = <<>> =>
        /\ pc \in {"start", "candidates", "failed"}
        /\ result = NoRanking
        /\ pc = "candidates" => rank_i > Len(entities_to_rank) /\ ranking = <<>>
        /\ pc = "start" => calls = <<>>
        /\ pc = "failed" =>
              /\ outcome = Raised("rank", "IndexError")
              /\ calls = <<<<"preparsing_function", None>>>>
              /\ preparsed_data = PreparsingFunction(model, <<>>, graph, input_data).preparsed

C30_EmptyCandidatesFail ==
    /\ []EmptyCandidatesState
    /\ [][entities_to_rank = <<>> =>
              /\ pc = "start" => (pc' = "candidates" /\ outcome' = NotCalled)
              /\ pc = "candidates" => pc' = "failed"]_vars

\* a failed call with no candidate, for a query with examples in a graph
\* with triples: the preparsing has produced weights
C30_Witness ==
    /\ entities_to_rank = <<>>
    /\ pc = "failed"
    /\ model = "examples"
    /\ preparsed_data.kind = "examples"
    /\ DOMAIN preparsed_data.weights # {}

====
